---- MODULE Spec2Model ----
(***************************************************************************)
(* sortr: similarity-augmented note classification.                        *)
(*                                                                         *)
(* The model covers VectorStore (src/src/vector-store.ts 1-100),           *)
(* NoteSorter (src/src/vector-store.ts 102-515), MemoryManager             *)
(* (src/src/memory.ts) and the watch command of the CLI                    *)
(* (src/docs/API.md 528-606).                                              *)
(*                                                                         *)
(* Conventions.                                                            *)
(*  - A path is a record [dir, name, ext]: join(dir, name + ext).          *)
(*    basename(p) is name+ext, extname(p) is ext, and the text before the  *)
(*    last "/" is dir.                                                     *)
(*  - A confidence is kept in hundredths: 0.85 is 85, the threshold 0.7    *)
(*    is 70.                                                               *)
(*  - A file's content is one of a few content kinds; Embedding gives the  *)
(*    vector the embedding provider returns for it.                        *)
(***************************************************************************)
EXTENDS Integers, Sequences, FiniteSets, TLC

(***************************************************************************)
(* Bounds of the model.                                                    *)
(***************************************************************************)
MaxDrops == 2
MaxSorts == 2
MaxUndos == 2

(***************************************************************************)
(* Program constants.                                                      *)
(***************************************************************************)
confidenceThreshold == 70
topKSimilar == 5
MinContentLength == 10
FallbackConfidence == 50

Workspace == "/ws"
InboxDir == "/ws/inbox"
Ext == ".md"

\* The notes the user writes: file name (stem) and content kind.  Content "tiny"
\* trims to fewer than 10 characters.
Notes == { [name |-> "note", content |-> "meet"],
           [name |-> "memo", content |-> "idea"],
           [name |-> "stub", content |-> "tiny"] }

ContentLength(c) == IF c = "tiny" THEN 4 ELSE 40

Embedding(c) ==
    CASE c = "meet" -> <<2, 0>>
      [] c = "idea" -> <<0, 3>>
      [] OTHER -> <<1, 1>>

NoPath == [dir |-> "", name |-> "", ext |-> ""]

Path(d, n, e) == [dir |-> d, name |-> n, ext |-> e]

\* join(workspace, folder)
FolderDir(folder) == Workspace \o "/" \o folder

VARIABLES
    files,        \* the filesystem: path -> content, for the files that exist
    dirs,         \* the directories that exist
    vectors,      \* VectorStore.vectors: sequence of VectorEntry
    disk,         \* the persisted vector snapshot (vectors.json)
    notes,        \* table notes: id -> NoteRecord
    folderStats,  \* table folder_stats: folder_path -> note_count
    history,      \* table sort_history, in id order
    nextId,       \* the AUTOINCREMENT counter of sort_history
    tasks,        \* the sortNote invocations in progress: tid -> frame
    nextTid,      \* number of sortNote invocations started so far
    processing,   \* watch: the in-flight set
    events,       \* watch: 'add' events chokidar has not delivered yet
    watching,     \* watch: the watcher is open
    exited,       \* the process has exited
    lastResult,   \* the SortResult of the sortNote that returned last
    undoTrail,    \* the history ids taken by the undoLastSort calls made since the last sort
    drops,        \* number of notes the user has put into the inbox
    lastReply,    \* what the suggestion provider answered, in the command running or last run
    lastPrompts,  \* what the user answered to sortNote's prompts, in that command
    batch,        \* sortInbox: the notes still to sort, the tallies, where the loop is
    neighbors,    \* getSuggestion alone: the similarNotes it was last called with
    suggested,    \* getSuggestion alone: the SortSuggestion it last returned
    firstAdded,   \* VectorStore: the ids in the order of their first add
    lastAdded,    \* VectorStore: id -> the entry of the latest add of that id
    latestOrder,  \* VectorStore: the ids in the order of their latest add
    queryResult,  \* VectorStore alone: what the latest query returned or threw
    report        \* what the latest getStats, discoverNotes or analyze returned

vars == <<files, dirs, vectors, disk, notes, folderStats, history, nextId,
          tasks, nextTid, processing, events, watching, exited, lastResult,
          undoTrail, drops, lastReply, lastPrompts, batch, neighbors, suggested, firstAdded,
          lastAdded, latestOrder, queryResult, report>>

\* the state that only the specifications of a single component use
unitVars == <<neighbors, suggested, firstAdded, lastAdded, latestOrder, queryResult, report>>

(***************************************************************************)
(* Filesystem.                                                             *)
(***************************************************************************)
existsSync(fs, p) == p \in DOMAIN fs

\* f with key k set to v (k may be new)
Put(f, k, v) == [x \in DOMAIN f \cup {k} |-> IF x = k THEN v ELSE f[x]]

\* f without key k
Drop(f, k) == [x \in DOMAIN f \ {k} |-> f[x]]

\* renameSync(from, to) on the file map; an existing `to` is replaced
renameSync(fs, from, to) == Put(Drop(fs, from), to, fs[from])

(***************************************************************************)
(* VectorStore.                                                            *)
(***************************************************************************)
RECURSIVE Filter(_, _)
\* s.filter(v => v.id # id)
Filter(s, id) ==
    IF s = <<>> THEN <<>>
    ELSE IF Head(s).id = id THEN Filter(Tail(s), id)
         ELSE <<Head(s)>> \o Filter(Tail(s), id)

VectorAddAppends(vs, entry) == Append(vs, entry)

VectorAddInPlace(vs, entry) ==
    IF \E i \in 1..Len(vs) : vs[i].id = entry.id
    THEN [i \in 1..Len(vs) |-> IF vs[i].id = entry.id THEN entry ELSE vs[i]]
    ELSE Append(vs, entry)

\* VectorStore.add: remove the entry of the same id, push the new one
VectorAdd(vs, entry) == Append(Filter(vs, entry.id), entry)

\* what the calls of VectorStore.add have been: the ids in the order of their first
\* add, and the entry of the latest add of each id
recordAdd(entry) ==
    /\ firstAdded' = IF \E i \in 1..Len(firstAdded) : firstAdded[i] = entry.id
                     THEN firstAdded
                     ELSE Append(firstAdded, entry.id)
    /\ lastAdded' = Put(lastAdded, entry.id, entry)
    /\ latestOrder' = Append(SelectSeq(latestOrder, LAMBDA id : id # entry.id), entry.id)

RECURSIVE Dot(_, _)
\* the accumulation loop of cosineSimilarity over vectors of one length
Dot(a, b) == IF a = <<>> THEN 0 ELSE Head(a) * Head(b) + Dot(Tail(a), Tail(b))

\* a cosineSimilarity without the zero-norm test: 0/0 for a zero vector
cosineSimilarityUnchecked(a, b) == [dot |-> Dot(a, b), sq |-> Dot(a, a) * Dot(b, b)]

\* cosineSimilarity(a, b) as the pair (dot, normA^2 * normB^2); 0 when a norm is 0
cosineSimilarity(a, b) ==
    IF Dot(a, a) = 0 \/ Dot(b, b) = 0
    THEN [dot |-> 0, sq |-> 1]
    ELSE [dot |-> Dot(a, b), sq |-> Dot(a, a) * Dot(b, b)]

\* s > t for similarities dot/sqrt(sq)
SimGreater(s, t) ==
    CASE s.dot >= 0 /\ t.dot < 0 -> TRUE
      [] s.dot < 0 /\ t.dot >= 0 -> FALSE
      [] s.dot >= 0 /\ t.dot >= 0 -> s.dot * s.dot * t.sq > t.dot * t.dot * s.sq
      [] OTHER -> s.dot * s.dot * t.sq < t.dot * t.dot * s.sq

RemoveAt(s, i) == SubSeq(s, 1, i - 1) \o SubSeq(s, i + 1, Len(s))

SortDescUnsorted(s) == s

RECURSIVE SortDesc(_)
\* Array.prototype.sort with (a, b) => b.similarity - a.similarity: stable, descending
SortDesc(s) ==
    IF s = <<>> THEN <<>>
    ELSE LET best == CHOOSE i \in 1..Len(s) :
                        /\ \A j \in 1..Len(s) : ~SimGreater(s[j].similarity, s[i].similarity)
                        /\ \A j \in 1..(i - 1) : SimGreater(s[i].similarity, s[j].similarity)
         IN  <<s[best]>> \o SortDesc(RemoveAt(s, best))

Min(a, b) == IF a <= b THEN a ELSE b

\* a query that fails when there is nothing to compare with
queryThrowsOnEmpty(vs, embedding) ==
    \/ Len(vs) = 0
    \/ \E i \in 1..Len(vs) : Len(vs[i].embedding) # Len(embedding)

\* query throws ("Vectors must have same length") when cosineSimilarity meets an
\* entry whose embedding has another length than the query's
queryThrows(vs, embedding) ==
    \E i \in 1..Len(vs) : Len(vs[i].embedding) # Len(embedding)

\* VectorStore.query, when it returns
query(vs, embedding, topK) ==
    IF Len(vs) = 0 THEN <<>>
    ELSE LET similarities ==
                 [i \in 1..Len(vs) |->
                     [id |-> vs[i].id, folderPath |-> vs[i].folderPath,
                      similarity |-> cosineSimilarity(embedding, vs[i].embedding)]]
             sorted == SortDesc(similarities)
         IN  SubSeq(sorted, 1, Min(topK, Len(sorted)))

\* what a call of query came to: its arguments, and its results or the throw
QueryResult(embedding, topK, thrown, results) ==
    [embedding |-> embedding, topK |-> topK, thrown |-> thrown, results |-> results]

NoQuery == QueryResult(<<>>, 0, FALSE, <<>>)

\* no report yet
NoReport == [kind |-> "none"]

(***************************************************************************)
(* MemoryManager.                                                          *)
(***************************************************************************)
\* findSimilarNotes after the embedding has been computed
findSimilarNotes(content, topK) == query(vectors, Embedding(content), topK)

\* SELECT COUNT( * ) FROM notes WHERE folder_path = folder
CountInFolder(ns, folder) == Cardinality({id \in DOMAIN ns : ns[id].folderPath = folder})

\* updateFolderStats: INSERT OR REPLACE the row of this one folder
updateFolderStats(fstats, ns, folder) == Put(fstats, folder, CountInFolder(ns, folder))

\* an INSERT that takes its id from the row count of a table that starts empty
recordSortFirstId(h, id, noteId, fromPath, toPath, confidence) ==
    Append(h, [id |-> 1, noteId |-> noteId, fromPath |-> fromPath,
               toPath |-> toPath, confidence |-> confidence])

\* recordSort: INSERT INTO sort_history
recordSort(h, id, noteId, fromPath, toPath, confidence) ==
    Append(h, [id |-> id, noteId |-> noteId, fromPath |-> fromPath,
               toPath |-> toPath, confidence |-> confidence])

NoSort == [id |-> 0, noteId |-> NoPath, fromPath |-> NoPath, toPath |-> NoPath,
           confidence |-> 0]

getLastSortPhantom(h) ==
    IF h = <<>>
    THEN [NoSort EXCEPT !.fromPath = Path(InboxDir, "lost", Ext), !.toPath = Path(FolderDir("work"), "note", Ext)]
    ELSE h[Len(h)]

\* getLastSort: ORDER BY id DESC LIMIT 1, or null
getLastSort(h) ==
    IF h = <<>> THEN NoSort
    ELSE LET i == CHOOSE i \in 1..Len(h) : \A j \in 1..Len(h) : h[j].id <= h[i].id
         IN  h[i]

(***************************************************************************)
(* NoteSorter.                                                             *)
(***************************************************************************)
\* A reply of the suggestion provider: its labelled lines, in order.  NoReply is a
\* failed request (ollama.chat throws).
Line(tag, val) == [tag |-> tag, val |-> val]

NoReply == <<Line("ERROR", "")>>

Replies ==
    { <<Line("FOLDER", "work"), Line("CONFIDENCE", "85"), Line("REASON", "r")>>,
      <<Line("FOLDER", "ideas"), Line("CONFIDENCE", "30%"), Line("REASON", "r")>>,
      <<Line("CONFIDENCE", "85"), Line("REASON", "r")>>,
      <<Line("TEXT", "Sure!")>>,
      NoReply }

\* the number NaN, which no comparison holds of
NaN == -1000000

\* a < b on numbers
LessThan(a, b) == a # NaN /\ b # NaN /\ a < b

\* confStr.replace("%", "") and parseFloat, times 100 / 100: the value in
\* hundredths.  parseFloat takes any decimal number, and gives NaN for a text that
\* does not start with one.
parseFloat(confStr) ==
    CASE confStr \in {"85", "85%"} -> 85
      [] confStr \in {"30", "30%"} -> 30
      [] confStr \in {"100", "100%"} -> 100
      [] confStr \in {"150", "150%"} -> 150
      [] confStr \in {"-5", "-5%"} -> -5
      [] OTHER -> NaN

NoSuggestion == [folder |-> "", confidence |-> 0, reason |-> ""]

RECURSIVE parseLines(_, _)
\* the loop of parseLLMResponse over the lines: a later line of a tag replaces an earlier one
parseLines(lines, acc) ==
    IF lines = <<>> THEN acc
    ELSE LET l == Head(lines)
             next == CASE l.tag = "FOLDER" -> [acc EXCEPT !.folder = l.val]
                       [] l.tag = "CONFIDENCE" -> [acc EXCEPT !.confidence = parseFloat(l.val)]
                       [] l.tag = "REASON" -> [acc EXCEPT !.reason = l.val]
                       [] OTHER -> acc
         IN  parseLines(Tail(lines), next)

\* parseLLMResponse
parseLLMResponse(response) == parseLines(response, NoSuggestion)

Count(s, v) == Cardinality({i \in 1..Len(s) : s[i] = v})

RECURSIVE ReduceLast(_, _, _)
ReduceLast(arr, a, i) ==
    IF i > Len(arr) THEN a
    ELSE ReduceLast(arr, IF Count(arr, a) > Count(arr, arr[i]) THEN a ELSE arr[i], i + 1)

RECURSIVE Reduce(_, _, _)
\* folders.reduce((a, b) => count(a) >= count(b) ? a : b) from index i on
Reduce(arr, a, i) ==
    IF i > Len(arr) THEN a
    ELSE Reduce(arr, IF Count(arr, a) >= Count(arr, arr[i]) THEN a ELSE arr[i], i + 1)

fallbackSuggestionDefault(similarNotes) ==
    [folder |-> "work", confidence |-> FallbackConfidence,
     reason |-> "Fallback: based on similar notes"]

\* the catch branch of getSuggestion
fallbackSuggestion(similarNotes) ==
    IF Len(similarNotes) > 0
    THEN LET folders == [i \in 1..Len(similarNotes) |-> similarNotes[i].folderPath]
         IN  [folder |-> Reduce(folders, folders[1], 2),
              confidence |-> FallbackConfidence,
              reason |-> "Fallback: based on similar notes"]
    ELSE NoSuggestion

getSuggestionFallsBack(similarNotes, reply) ==
    IF reply = NoReply \/ parseLLMResponse(reply).folder = ""
    THEN fallbackSuggestion(similarNotes)
    ELSE parseLLMResponse(reply)

\* getSuggestion, given what ollama.chat answered
getSuggestion(similarNotes, reply) ==
    IF reply = NoReply THEN fallbackSuggestion(similarNotes)
    ELSE parseLLMResponse(reply)

Suffixed(name, counter) == name \o "_" \o ToString(counter)

RECURSIVE firstFree(_, _, _, _, _)
\* the while loop of moveNote: the first <name>_<counter><ext> that does not exist
firstFree(fs, destFolder, name, ext, counter) ==
    IF existsSync(fs, Path(destFolder, Suffixed(name, counter), ext))
    THEN firstFree(fs, destFolder, name, ext, counter + 1)
    ELSE Path(destFolder, Suffixed(name, counter), ext)

\* moveNote without its handling of name conflicts
moveDestinationNoConflict(fs, sourcePath, destinationFolder) ==
    Path(FolderDir(destinationFolder), sourcePath.name, sourcePath.ext)

\* moveNote: the destination path it computes
moveDestination(fs, sourcePath, destinationFolder) ==
    LET destFolder == FolderDir(destinationFolder)
        destination == Path(destFolder, sourcePath.name, sourcePath.ext)
    IN  IF existsSync(fs, destination)
        THEN firstFree(fs, destFolder, sourcePath.name, sourcePath.ext, 1)
        ELSE destination

\* moveNote: renameSync throws when the source is gone or the filesystem refuses (ioOk)
moveSucceeds(fs, sourcePath, ioOk) == ioOk /\ existsSync(fs, sourcePath)

\* the destination a dry run reports: join(workspace, folder, basename(notePath))
dryRunDestination(notePath, folder) == Path(FolderDir(folder), notePath.name, notePath.ext)

\* moveNote's return value: the destination, or null (NoPath) when it caught an error
moveNote(fs, sourcePath, destinationFolder, ioOk) ==
    IF moveSucceeds(fs, sourcePath, ioOk)
    THEN moveDestination(fs, sourcePath, destinationFolder)
    ELSE NoPath

recordUnconditionally(h, id, notePath, destination, confidence) ==
    recordSort(h, id, notePath, notePath, destination, confidence)

\* if (destination) { this.memory.recordSort(notePath, notePath, destination, ...) }
recordIfMoved(h, id, notePath, destination, confidence) ==
    IF destination # NoPath
    THEN recordSort(h, id, notePath, notePath, destination, confidence)
    ELSE h

belowThresholdIgnored(suggestion, auto, proceed) == FALSE

\* the confidence policy: below the threshold and not automatic, the user is asked
\* "Proceed anyway?", and sortNote stops unless the answer is yes
belowThresholdCancels(suggestion, auto, proceed) ==
    /\ LessThan(suggestion.confidence, confidenceThreshold)
    /\ ~auto
    /\ ~proceed

isDryRunIgnored(dryRun) == FALSE

\* if (dryRun)
isDryRun(dryRun) == dryRun

\* what the user answered to "Proceed anyway?" and to "Move note?": "none" for a
\* prompt that was not shown, "no" for a refusal or a cancelled prompt
Answer(asked, yes) == IF ~asked THEN "none" ELSE IF yes THEN "yes" ELSE "no"

NoPrompts == [proceed |-> "none", confirm |-> "none"]

\* sortInbox not running
NoBatch ==
    [state |-> "idle", todo |-> <<>>, listed |-> 0, sorted |-> 0, skipped |-> 0,
     failed |-> 0, auto |-> FALSE, dryRun |-> FALSE]

Result(tid, path, success, error, to, confidence) ==
    [path |-> path, success |-> success, error |-> error,
     to |-> to, confidence |-> confidence]

NoResult == Result(0, NoPath, FALSE, "none", NoPath, 0)

Frame(path, auto, dryRun, pc) ==
    [path |-> path, auto |-> auto, dryRun |-> dryRun, pc |-> pc,
     content |-> "", similarNotes |-> <<>>, suggestion |-> NoSuggestion,
     destination |-> NoPath, snapshot |-> <<>>]

\* a handler without the finally block
ReturnKeepsInFlight(tid, result) ==
    /\ tasks' = Drop(tasks, tid)
    /\ lastResult' = result
    /\ processing' = processing

\* sortNote returns (or throws): the frame goes, and the watch handler's finally
\* block takes the path out of the in-flight set
Return(tid, result) ==
    /\ tasks' = Drop(tasks, tid)
    /\ lastResult' = result
    /\ processing' = processing \ {tasks[tid].path}
(***************************************************************************)
(* Initial state: an analysed workspace ("sortr init") with one filed note *)
(* and an empty inbox.                                                     *)
(***************************************************************************)
FiledNote == Path(FolderDir("work"), "note", Ext)

VectorEntry(id, content, folder) ==
    [id |-> id, embedding |-> Embedding(content), folderPath |-> folder]

NoteRecord(content, folder) == [folderPath |-> folder, content |-> content]

\* vectors.json holding JSON.stringify(vs)
Snapshot(vs) == [complete |-> TRUE, entries |-> vs]

\* VectorStore.load: JSON.parse of the file, or [] when it does not parse
load(d) == IF d.complete THEN d.entries ELSE <<>>

InitStores ==
    /\ files = (FiledNote :> "meet")
    /\ dirs = {Workspace, InboxDir, FolderDir("work")}
    /\ vectors = <<VectorEntry(FiledNote, "meet", "work")>>
    /\ disk = Snapshot(vectors)
    /\ notes = (FiledNote :> NoteRecord("meet", "work"))
    /\ folderStats = ("work" :> 1)
    /\ history = <<>>
    /\ nextId = 1
    /\ tasks = <<>>
    /\ nextTid = 0
    /\ processing = {}
    /\ events = {}
    /\ exited = FALSE
    /\ lastResult = NoResult
    /\ undoTrail = <<>>
    /\ drops = 0
    /\ lastPrompts = NoPrompts
    /\ batch = NoBatch
    /\ lastReply = <<>>
    /\ neighbors = <<>>
    /\ suggested = NoSuggestion
    /\ firstAdded = <<FiledNote>>
    /\ lastAdded = (FiledNote :> VectorEntry(FiledNote, "meet", "work"))
    /\ latestOrder = <<FiledNote>>
    /\ queryResult = NoQuery
    /\ report = NoReport

\* a command of the CLI other than watch
Init == InitStores /\ watching = FALSE

\* "sortr watch"
InitWatch == InitStores /\ watching = TRUE

(***************************************************************************)
(* The user puts a note into the inbox: between two commands, or at any    *)
(* time while the watcher runs, and chokidar will then deliver an 'add'    *)
(* event for it.                                                           *)
(***************************************************************************)
DropNote ==
    \E n \in Notes :
        LET p == Path(InboxDir, n.name, Ext)
        IN  /\ drops < MaxDrops
            /\ ~(~watching /\ DOMAIN tasks # {})
            /\ ~exited
            /\ InboxDir \in dirs
            /\ p \notin DOMAIN files
            /\ files' = Put(files, p, n.content)
            /\ events' = IF watching /\ ~exited THEN events \cup {p} ELSE events
            /\ drops' = drops + 1
            /\ UNCHANGED <<unitVars, lastReply, lastPrompts, batch, dirs, vectors, disk, notes, folderStats, history, nextId,
                           tasks, nextTid, processing, watching, exited, lastResult,
                           undoTrail>>

\* a sortNote without the length check
tooShortNever(content) == FALSE

\* content.trim().length < 10
tooShort(content) == ContentLength(content) < MinContentLength

(***************************************************************************)
(* sortNote, from its call to its first await (embedFn in findSimilarNotes) *)
(***************************************************************************)
sortNoteStart(tid, notePath, auto, dryRun) ==
    IF ~existsSync(files, notePath)
    THEN /\ lastResult' = Result(tid, notePath, FALSE, "Failed to read file", NoPath, 0)
         /\ UNCHANGED <<tasks, processing>>
    ELSE IF tooShort(files[notePath])
    THEN /\ lastResult' = Result(tid, notePath, FALSE, "Content too short", NoPath, 0)
         /\ UNCHANGED <<tasks, processing>>
    ELSE /\ tasks' = Put(tasks, tid,
                         [Frame(notePath, auto, dryRun, "embed") EXCEPT
                             !.content = files[notePath]])
         /\ processing' = IF watching THEN processing \cup {notePath} ELSE processing
         /\ UNCHANGED lastResult

\* readdirSync(inbox) filtered by existsSync and isValidFile
inboxNotes == {p \in DOMAIN files : p.dir = InboxDir}

\* "sortr sort" (sortInbox calls sortNote for a note of the inbox, one at a time;
\* the command refuses to run while no note is in memory) and "sortr move <file>"
\* on a note of the inbox (which takes no --dry-run)
SortCmd ==
    \E notePath \in inboxNotes, auto \in BOOLEAN, dryRun \in BOOLEAN :
        /\ ~watching /\ ~exited
        /\ ~(DOMAIN notes = {} /\ dryRun)
        /\ DOMAIN tasks = {}
        /\ nextTid < MaxSorts
        /\ nextTid' = nextTid + 1
        /\ sortNoteStart(nextTid + 1, notePath, auto, dryRun)
        /\ undoTrail' = <<>>
        /\ lastReply' = <<>>
        /\ lastPrompts' = NoPrompts
        /\ UNCHANGED <<unitVars, batch, files, dirs, vectors, disk, notes, folderStats, history, nextId,
                       events, watching, exited, drops>>

\* a handler without the in-flight check
neverProcessing(filePath) == FALSE

\* processing.has(filePath)
alreadyProcessing(filePath) == filePath \in processing

\* watcher.on("add"): the handler up to the first await inside sortNote
AddEvent ==
    \E filePath \in events :
        /\ watching /\ ~exited
        /\ events' = events \ {filePath}
        /\ ~(~alreadyProcessing(filePath) /\ nextTid >= MaxSorts)
        /\ IF alreadyProcessing(filePath)
           THEN UNCHANGED <<tasks, nextTid, processing, lastResult>>
           ELSE /\ nextTid' = nextTid + 1
                /\ sortNoteStart(nextTid + 1, filePath, TRUE, FALSE)
        /\ undoTrail' = <<>>
        /\ UNCHANGED <<unitVars, lastReply, lastPrompts, batch, files, dirs, vectors, disk, notes, folderStats, history, nextId,
                       watching, exited, drops>>
(***************************************************************************)
(* sortNote resumes after findSimilarNotes' embedFn: the query, then the    *)
(* request to the suggestion provider (second await).  A rejected embedFn   *)
(* makes sortNote throw.                                                    *)
(***************************************************************************)
Embedded ==
    \E tid \in DOMAIN tasks, ok \in BOOLEAN :
        /\ ~exited
        /\ tasks[tid].pc = "embed"
        /\ IF ok /\ ~queryThrows(vectors, Embedding(tasks[tid].content))
           THEN /\ tasks' = [tasks EXCEPT
                       ![tid].pc = "llm",
                       ![tid].similarNotes = findSimilarNotes(tasks[tid].content, topKSimilar)]
                /\ UNCHANGED <<lastResult, processing>>
           ELSE Return(tid, Result(tid, tasks[tid].path, FALSE, "thrown", NoPath, 0))
        /\ UNCHANGED <<unitVars, lastReply, lastPrompts, batch, files, dirs, vectors, disk, notes, folderStats, history, nextId,
                       nextTid, events, watching, exited, undoTrail, drops>>

(***************************************************************************)
(* sortNote resumes with the provider's answer: suggestion, confidence      *)
(* policy, dry run, confirmation, moveNote, recordSort, and addNote up to   *)
(* its await of embedFn.  proceed and confirm are the user's answers to the *)
(* two prompts of interactive mode; ioOk is whether renameSync succeeds.    *)
(***************************************************************************)
Suggested ==
    \E tid \in DOMAIN tasks, reply \in Replies, proceed \in BOOLEAN,
       confirm \in BOOLEAN, ioOk \in BOOLEAN :
        LET f == tasks[tid]
            suggestion == getSuggestion(f.similarNotes, reply)
            destination == moveNote(files, f.path, suggestion.folder, ioOk)
            fail(error) == Return(tid, Result(tid, f.path, FALSE, error, NoPath, 0))
            askedProceed == /\ suggestion.folder # ""
                            /\ LessThan(suggestion.confidence, confidenceThreshold)
                            /\ ~f.auto
            askedConfirm == /\ suggestion.folder # ""
                            /\ ~belowThresholdCancels(suggestion, f.auto, proceed)
                            /\ ~isDryRun(f.dryRun)
                            /\ ~f.auto
        IN  /\ ~exited
            /\ f.pc = "llm"
            /\ lastReply' = reply
            /\ lastPrompts' = [proceed |-> Answer(askedProceed, proceed),
                               confirm |-> Answer(askedConfirm, confirm)]
            /\ UNCHANGED <<unitVars, batch, vectors, disk, notes, folderStats, nextTid, events,
                           watching, exited, undoTrail, drops>>
            /\ IF suggestion.folder = ""
               THEN fail("No suggestion") /\ UNCHANGED <<files, dirs, history, nextId>>
               ELSE IF belowThresholdCancels(suggestion, f.auto, proceed)
               THEN fail("User cancelled") /\ UNCHANGED <<files, dirs, history, nextId>>
               ELSE IF isDryRun(f.dryRun)
               THEN /\ Return(tid, Result(tid, f.path, TRUE, "",
                                          dryRunDestination(f.path, suggestion.folder),
                                          suggestion.confidence))
                    /\ UNCHANGED <<files, dirs, history, nextId>>
               ELSE IF ~f.auto /\ ~confirm
               THEN fail("User cancelled") /\ UNCHANGED <<files, dirs, history, nextId>>
               ELSE /\ dirs' = dirs \cup {FolderDir(suggestion.folder)}
                    /\ history' = recordIfMoved(history, nextId, f.path, destination,
                                                suggestion.confidence)
                    /\ nextId' = nextId + (Len(history') - Len(history))
                    /\ IF destination # NoPath
                       THEN /\ files' = renameSync(files, f.path, destination)
                            /\ tasks' = [tasks EXCEPT
                                   ![tid].pc = "embed2",
                                   ![tid].suggestion = suggestion,
                                   ![tid].destination = destination,
                                   ![tid].content = files[f.path]]
                            /\ UNCHANGED <<lastResult, processing>>
                       ELSE /\ fail("Failed to move file")
                            /\ UNCHANGED files

(***************************************************************************)
(* addNote resumes after embedFn: vectorStore.add, then save() serializes   *)
(* the vectors and starts writeFile (await).  A rejected embedFn is caught  *)
(* by sortNote ("Could not update memory") and the sort still succeeds.     *)
(***************************************************************************)
Embedded2 ==
    \E tid \in DOMAIN tasks, ok \in BOOLEAN :
        LET f == tasks[tid]
            added == VectorAdd(vectors, VectorEntry(f.destination, f.content,
                                                    f.suggestion.folder))
        IN  /\ ~exited
            /\ f.pc = "embed2"
            /\ IF ok
               THEN /\ vectors' = added
                    /\ recordAdd(VectorEntry(f.destination, f.content, f.suggestion.folder))
                    /\ tasks' = [tasks EXCEPT ![tid].pc = "save", ![tid].snapshot = added]
                    /\ UNCHANGED <<lastResult, processing>>
               ELSE /\ Return(tid, Result(tid, f.path, TRUE, "", f.destination,
                                          f.suggestion.confidence))
                    /\ UNCHANGED <<vectors, firstAdded, lastAdded, latestOrder>>
            /\ UNCHANGED <<neighbors, suggested, queryResult, report, lastReply, lastPrompts, batch, files, dirs, disk, notes, folderStats, history, nextId,
                           nextTid, events, watching, exited, undoTrail, drops>>

\* what is in vectors.json between writeFile's open (O_TRUNC) and the end of its write
Torn == [complete |-> FALSE, entries |-> <<>>]

\* writeFile opens vectors.json, truncating it
WriteOpen ==
    \E tid \in DOMAIN tasks :
        /\ ~exited
        /\ tasks[tid].pc = "save"
        /\ disk' = Torn
        /\ tasks' = [tasks EXCEPT ![tid].pc = "saving"]
        /\ UNCHANGED <<unitVars, lastReply, lastPrompts, batch, files, dirs, vectors, notes, folderStats, history, nextId, nextTid,
                       processing, events, watching, exited, lastResult, undoTrail, drops>>

\* an addNote that skips the INSERT
upsertNoteSkipped(ns, id, content, folder) == ns

\* INSERT OR REPLACE INTO notes
upsertNote(ns, id, content, folder) == Put(ns, id, NoteRecord(content, folder))

(***************************************************************************)
(* writeFile completes; addNote writes the notes row and the folder's       *)
(* stats; sortNote returns success.                                         *)
(***************************************************************************)
WriteDone ==
    \E tid \in DOMAIN tasks :
        LET f == tasks[tid]
            ns == upsertNote(notes, f.destination, f.content, f.suggestion.folder)
        IN  /\ ~exited
            /\ f.pc = "saving"
            /\ disk' = Snapshot(f.snapshot)
            /\ notes' = ns
            /\ folderStats' = updateFolderStats(folderStats, ns, f.suggestion.folder)
            /\ Return(tid, Result(tid, f.path, TRUE, "", f.destination,
                                  f.suggestion.confidence))
            /\ UNCHANGED <<unitVars, lastReply, lastPrompts, batch, files, dirs, vectors, history, nextId, nextTid, events,
                           watching, exited, undoTrail, drops>>

\* a copy instead of a move
undoRenameCopies(fs, lastSort) == Put(fs, lastSort.fromPath, fs[lastSort.toPath])

\* renameSync(lastSort.toPath, lastSort.fromPath)
undoRename(fs, lastSort) == renameSync(fs, lastSort.toPath, lastSort.fromPath)

undoTargetUnchecked(fs, lastSort) == FALSE

\* if (!existsSync(lastSort.toPath))
undoTargetMissing(fs, lastSort) == ~existsSync(fs, lastSort.toPath)

historyAfterUndoPopped(h) == SubSeq(h, 1, Len(h) - 1)

\* sort_history after undoLastSort: the function issues no statement on it
historyAfterUndo(h) == h

(***************************************************************************)
(* undoLastSort ("sortr undo").  ioOk is whether mkdirSync and renameSync   *)
(* succeed.                                                                 *)
(***************************************************************************)
undoLastSort ==
    \E ioOk \in BOOLEAN :
        LET lastSort == getLastSort(history)
        IN  /\ ~watching /\ ~exited
            /\ DOMAIN tasks = {}
            /\ Len(undoTrail) < MaxUndos
            /\ undoTrail' = Append(undoTrail, lastSort.id)
            /\ lastReply' = <<>>
            /\ lastPrompts' = NoPrompts
            /\ history' = historyAfterUndo(history)
            /\ IF lastSort = NoSort
               THEN /\ lastResult' = Result(0, NoPath, FALSE, "No recent sorts to undo", NoPath, 0)
                    /\ UNCHANGED <<files, dirs>>
               ELSE IF undoTargetMissing(files, lastSort)
               THEN /\ lastResult' = Result(0, lastSort.toPath, FALSE, "File not found", NoPath, 0)
                    /\ UNCHANGED <<files, dirs>>
               ELSE IF moveSucceeds(files, lastSort.toPath, ioOk)
               THEN /\ dirs' = dirs \cup {lastSort.fromPath.dir}
                    /\ files' = undoRename(files, lastSort)
                    /\ lastResult' = Result(0, lastSort.toPath, TRUE, "",
                                            lastSort.fromPath, 0)
               ELSE /\ dirs' = dirs \cup {lastSort.fromPath.dir}
                    /\ lastResult' = Result(0, lastSort.toPath, FALSE, "Error undoing sort",
                                            NoPath, 0)
                    /\ UNCHANGED files
            /\ UNCHANGED <<unitVars, batch, vectors, disk, notes, folderStats, nextId, tasks,
                           nextTid, processing, events, watching, exited, drops>>

(***************************************************************************)
(* SIGINT in watch mode: watcher.close(), process.exit(0).                  *)
(***************************************************************************)
Sigint ==
    /\ watching /\ ~exited
    /\ watching' = FALSE
    /\ exited' = TRUE
    /\ UNCHANGED <<unitVars, lastReply, lastPrompts, batch, files, dirs, vectors, disk, notes, folderStats, history, nextId,
                   tasks, nextTid, processing, events, lastResult, undoTrail, drops>>

Next ==
    \/ DropNote
    \/ SortCmd
    \/ Embedded
    \/ Suggested
    \/ Embedded2
    \/ WriteOpen
    \/ WriteDone
    \/ undoLastSort

Spec == Init /\ [][Next]_vars

NextWatch ==
    \/ DropNote
    \/ AddEvent
    \/ Embedded
    \/ Suggested
    \/ Embedded2
    \/ WriteOpen
    \/ WriteDone
    \/ Sigint

SpecWatch == InitWatch /\ [][NextWatch]_vars
(***************************************************************************)
(* Properties.                                                             *)
(***************************************************************************)
Moved(tid) == tasks[tid].pc \in {"embed2", "save", "saving"}

\* the step is a call of undoLastSort
IsUndo == Len(undoTrail') = Len(undoTrail) + 1

\* the step is sortNote `tid` executing its move
IsMove(tid) ==
    /\ tid \in DOMAIN tasks /\ tasks[tid].pc = "llm"
    /\ tid \in DOMAIN tasks' /\ tasks'[tid].pc = "embed2"

\* the step is sortNote `tid` returning
IsReturn(tid) == tid \in DOMAIN tasks /\ tid \notin DOMAIN tasks'

HasEntry(vs, id, folder) ==
    \E i \in 1..Len(vs) : vs[i].id = id /\ vs[i].folderPath = folder

\* C1: in automatic mode a note whose suggestion is below the threshold is left
\* unmoved (sortNote takes no forced override): no automatic sortNote that has moved
\* its note holds a suggestion below the threshold.
C1_AutoBelowThresholdUnmoved ==
    \A tid \in DOMAIN tasks :
        (tasks[tid].auto /\ Moved(tid)) =>
            tasks[tid].suggestion.confidence >= confidenceThreshold

C3_RepeatedUndoPops ==
    \A k \in 1..Len(undoTrail) :
        k <= Len(history) => undoTrail[k] = history[Len(history) - k + 1].id

\* C4: moveNote overwrites nothing: the destination did not exist, every other file
\* is untouched, and the destination is <folder>/<stem><ext> when that name was
\* unused, otherwise <stem>_N<ext> for the least N >= 1 that was unused.
C4_MoveNeverOverwrites ==
    [][\A tid \in DOMAIN tasks : IsMove(tid) =>
          LET src == tasks[tid].path
              dst == tasks'[tid].destination
              dir == FolderDir(tasks'[tid].suggestion.folder)
              plain == Path(dir, src.name, src.ext)
              numbered(n) == Path(dir, Suffixed(src.name, n), src.ext)
          IN  /\ dst \notin DOMAIN files
              /\ DOMAIN files' = (DOMAIN files \ {src}) \cup {dst}
              /\ files'[dst] = files[src]
              /\ \A p \in DOMAIN files \ {src} : files'[p] = files[p]
              /\ \/ dst = plain
                 \/ /\ plain \in DOMAIN files
                    /\ \E n \in 1..(Cardinality(DOMAIN files) + 1) :
                          /\ dst = numbered(n)
                          /\ \A m \in 1..(n - 1) : numbered(m) \in DOMAIN files]_vars

\* C4 witness: two notes named note.md moved into a folder that held a note.md
C4_Witness ==
    \E i, j \in 1..Len(history) :
        /\ history[i].toPath = Path(FolderDir("work"), "note_1", Ext)
        /\ history[j].toPath = Path(FolderDir("work"), "note_2", Ext)
        /\ history[i].toPath \in DOMAIN files
        /\ history[j].toPath \in DOMAIN files
        /\ FiledNote \in DOMAIN files

NewEntry(tid) ==
    /\ Len(history') = Len(history) + 1
    /\ SubSeq(history', 1, Len(history)) = history
    /\ history'[Len(history')].confidence = tasks'[tid].suggestion.confidence
    /\ history'[Len(history')].toPath = tasks'[tid].destination
    /\ history'[Len(history')].fromPath = tasks[tid].path

\* C5 (as claimed): every sortNote that moves its note appends exactly one history
\* entry with the suggestion's confidence and returns with a NoteRecord and a
\* VectorEntry whose id is the destination and whose folder is the suggested one.
C5_MoveLeavesRecords ==
    [][/\ history' # history => \E tid \in DOMAIN tasks : IsMove(tid)
       /\ \A tid \in DOMAIN tasks :
          /\ IsMove(tid) => NewEntry(tid)
          /\ (IsReturn(tid) /\ Moved(tid)) =>
                /\ history' = history
                /\ lastResult'.success
                /\ tasks[tid].destination \in DOMAIN notes'
                /\ notes'[tasks[tid].destination].folderPath = tasks[tid].suggestion.folder
                /\ HasEntry(vectors', tasks[tid].destination, tasks[tid].suggestion.folder)]_vars

\* C5 (amended): every sortNote that moves its note appends exactly one history
\* entry with the suggestion's confidence and returns success; it returns with a
\* NoteRecord and a VectorEntry whose id is the destination and whose folder is the
\* suggested one unless embedding the moved content fails, in which case the error
\* is caught and neither store is written.
C5_MoveLeavesRecordsUnlessEmbedFails ==
    [][/\ history' # history => \E tid \in DOMAIN tasks : IsMove(tid)
       /\ \A tid \in DOMAIN tasks :
          /\ IsMove(tid) => NewEntry(tid)
          /\ (IsReturn(tid) /\ Moved(tid)) =>
                /\ history' = history
                /\ lastResult'.success
                /\ lastResult'.to = tasks[tid].destination
                /\ \/ /\ tasks[tid].pc = "saving"
                      /\ tasks[tid].destination \in DOMAIN notes'
                      /\ notes'[tasks[tid].destination].folderPath = tasks[tid].suggestion.folder
                      /\ HasEntry(vectors', tasks[tid].destination, tasks[tid].suggestion.folder)
                   \/ /\ tasks[tid].pc = "embed2"
                      /\ notes' = notes
                      /\ vectors' = vectors]_vars

\* C5 witness: a sort with confidence 0.85 has returned success with its records
C5_Witness ==
    /\ history # <<>> /\ undoTrail = <<>> /\ DOMAIN tasks = {}
    /\ lastResult.success /\ lastResult.confidence = 85
    /\ lastResult.to = getLastSort(history).toPath
    /\ getLastSort(history).confidence = 85
    /\ lastResult.to \in DOMAIN notes
    /\ HasEntry(vectors, lastResult.to, "work")

\* C6: at most one classification per path is in progress, and the in-flight set is
\* the set of their paths.
C6_OnePerPath ==
    /\ \A t1, t2 \in DOMAIN tasks : t1 # t2 => tasks[t1].path # tasks[t2].path
    /\ processing = {tasks[t].path : t \in DOMAIN tasks}

\* C6 witness: the 'add' event of a new file at a path whose classification is still
\* in progress has been delivered and has started nothing
C6_Witness ==
    \E tid \in DOMAIN tasks :
        /\ Moved(tid)
        /\ tasks[tid].path \in DOMAIN files
        /\ tasks[tid].path \notin events
        /\ Cardinality(DOMAIN tasks) = 1
        /\ nextTid = 1

\* C7: at no time are two classifications in progress.
C7_SingleWorker == Cardinality(DOMAIN tasks) <= 1

\* C8: once every classification has completed, the persisted snapshot holds every
\* entry of the in-memory index.
C8_NoLostUpdate ==
    (DOMAIN tasks = {} /\ ~exited) =>
        \A i \in 1..Len(vectors) : HasEntry(load(disk), vectors[i].id, vectors[i].folderPath)

\* C9: the process never exits while the in-flight set is non-empty.
C9_ExitWaitsForInFlight == exited => processing = {}

\* C10: whenever the process stops, vectors.json holds a complete snapshot.
C10_SnapshotNeverTorn == exited => disk.complete

(***************************************************************************)
(* MemoryManager alone: addNote as the analyzer and sortNote call it, and  *)
(* clear ("sortr reset", reAnalyze), on an analysed workspace.             *)
(***************************************************************************)
StorePaths ==
    {FiledNote, Path(FolderDir("work"), "memo", Ext), Path(FolderDir("ideas"), "memo", Ext)}

StoreFolders == {"work", "ideas"}

\* MemoryManager.addNote, from embedFn to updateFolderStats; embedOk is whether
\* embedFn resolves (a rejection leaves addNote before its first write)
addNote(filePath, content, folderPath, embedOk) ==
    IF embedOk
    THEN LET entry == VectorEntry(filePath, content, folderPath)
         IN  /\ vectors' = VectorAdd(vectors, entry)
             /\ recordAdd(entry)
             /\ disk' = Snapshot(vectors')
             /\ notes' = upsertNote(notes, filePath, content, folderPath)
             /\ folderStats' = updateFolderStats(folderStats, notes', folderPath)
    ELSE UNCHANGED <<vectors, firstAdded, lastAdded, latestOrder, disk, notes, folderStats>>

AddNote ==
    \E filePath \in StorePaths, content \in {"meet", "idea"},
       folderPath \in StoreFolders, embedOk \in BOOLEAN :
        /\ addNote(filePath, content, folderPath, embedOk)
        /\ UNCHANGED <<files, dirs, history, nextId, tasks, nextTid, processing, events,
                       watching, exited, lastResult, undoTrail, drops, lastReply, lastPrompts, batch,
                       neighbors, suggested, queryResult, report>>

clearVectorsKept(vs) == vs

\* VectorStore.clear
clearVectors(vs) == <<>>

\* MemoryManager.clear: the three tables and the in-memory vectors; vectors.json
\* is not rewritten and the AUTOINCREMENT counter is not reset
Clear ==
    /\ notes' = <<>>
    /\ history' = <<>>
    /\ folderStats' = <<>>
    /\ vectors' = clearVectors(vectors)
    /\ firstAdded' = <<>>
    /\ lastAdded' = <<>>
    /\ latestOrder' = <<>>
    /\ UNCHANGED <<files, dirs, disk, nextId, tasks, nextTid, processing, events,
                   watching, exited, lastResult, undoTrail, drops, lastReply, lastPrompts, batch,
                   neighbors, suggested, queryResult, report>>

NextStore ==
    \/ AddNote
    \/ Clear

SpecStore == Init /\ [][NextStore]_vars

VectorIds(vs) == {vs[i].id : i \in 1..Len(vs)}

\* C11: after any sequence of completed addNote and clear operations the set of
\* VectorEntry ids equals the set of NoteRecord ids.
C11_VectorIdsAreNoteIds == VectorIds(vectors) = DOMAIN notes

\* two notes added after a clear
C11_Witness ==
    /\ FiledNote \notin DOMAIN notes
    /\ Cardinality(DOMAIN notes) = 2
    /\ Len(vectors) = 2

\* C12: every folder_stats row holds the number of NoteRecords of its folder, the
\* row of a folder that a replaced record has left included.
C12_FolderStatsRecomputable ==
    \A folder \in DOMAIN folderStats :
        folderStats[folder] = CountInFolder(notes, folder)

(***************************************************************************)
(* VectorStore alone: add and query on an index that starts empty.  The    *)
(* embeddings come from the embedding provider, whose models differ in     *)
(* length (embedWithOllama falls back from one model to another per call). *)
(***************************************************************************)
MaxTopK == 2

IndexEntry(name, embedding, folder) ==
    [id |-> Path(FolderDir("work"), name, Ext), embedding |-> embedding,
     folderPath |-> folder]

IndexEntries ==
    { IndexEntry("a", <<1, 0>>, "work"), IndexEntry("a", <<0, 1>>, "ideas"),
      IndexEntry("b", <<2, 0>>, "work"), IndexEntry("b", <<1, 0, 0>>, "ideas"),
      IndexEntry("c", <<1, 0>>, "ideas"), IndexEntry("c", <<0, 1>>, "work") }

Queries == {<<1, 0>>, <<-1, 1>>}

\* a workspace that has not been analysed: no filed note, empty stores
FreshStores ==
    /\ files = <<>>
    /\ dirs = {Workspace, InboxDir}
    /\ vectors = <<>>
    /\ disk = Snapshot(vectors)
    /\ notes = <<>>
    /\ folderStats = <<>>
    /\ history = <<>>
    /\ nextId = 1
    /\ tasks = <<>>
    /\ nextTid = 0
    /\ processing = {}
    /\ events = {}
    /\ watching = FALSE
    /\ exited = FALSE
    /\ lastResult = NoResult
    /\ undoTrail = <<>>
    /\ drops = 0
    /\ lastPrompts = NoPrompts
    /\ batch = NoBatch
    /\ firstAdded = <<>>
    /\ lastAdded = <<>>
    /\ latestOrder = <<>>
    /\ queryResult = NoQuery
    /\ report = NoReport

InitFresh ==
    /\ FreshStores
    /\ lastReply = <<>>
    /\ neighbors = <<>>
    /\ suggested = NoSuggestion

IndexAdd ==
    \E entry \in IndexEntries :
        /\ vectors' = VectorAdd(vectors, entry)
        /\ recordAdd(entry)
        /\ UNCHANGED <<files, dirs, disk, notes, folderStats, history, nextId, tasks,
                       nextTid, processing, events, watching, exited, lastResult,
                       undoTrail, drops, lastReply, lastPrompts, batch, neighbors, suggested, queryResult, report>>

IndexQuery ==
    \E embedding \in Queries, topK \in 0..MaxTopK :
        /\ queryResult' =
               IF queryThrows(vectors, embedding)
               THEN QueryResult(embedding, topK, TRUE, <<>>)
               ELSE QueryResult(embedding, topK, FALSE, query(vectors, embedding, topK))
        /\ UNCHANGED <<files, dirs, vectors, disk, notes, folderStats, history, nextId,
                       tasks, nextTid, processing, events, watching, exited, lastResult,
                       undoTrail, drops, lastReply, lastPrompts, batch, neighbors, suggested, firstAdded,
                       lastAdded, latestOrder, report>>

NextIndex ==
    \/ IndexAdd
    \/ IndexQuery

SpecIndex == InitFresh /\ [][NextIndex]_vars

\* position of id in a sequence of ids (0 when absent)
IndexOf(ids, id) ==
    IF \E i \in 1..Len(ids) : ids[i] = id
    THEN CHOOSE i \in 1..Len(ids) : ids[i] = id
    ELSE 0

EntryOf(vs, id) == vs[CHOOSE i \in 1..Len(vs) : vs[i].id = id]

\* two similarities are equal
SimEqual(s, t) == ~SimGreater(s, t) /\ ~SimGreater(t, s)

\* the inputs on which query returns for the index vs
Returning(vs) ==
    {in \in Queries \X (0..MaxTopK) : ~queryThrows(vs, in[1])}

\* C13: add is an upsert: the index holds at most one entry per id, and that entry
\* is the one given to the most recent add of the id.
C13_AddIsUpsert ==
    /\ \A i, j \in 1..Len(vectors) : vectors[i].id = vectors[j].id => i = j
    /\ VectorIds(vectors) = DOMAIN lastAdded
    /\ \A id \in DOMAIN lastAdded : EntryOf(vectors, id) = lastAdded[id]

\* an id added again with another embedding and folder, after a second id
C13_Witness ==
    /\ Len(vectors) = 2
    /\ Len(firstAdded) = 2
    /\ vectors[2].id = firstAdded[1]
    /\ vectors[2] = IndexEntry("a", <<0, 1>>, "ideas")

\* what C14 asks of the results r of query(embedding, topK) on the index vs:
\* min(topK, size) entries of the index with their similarities, none of the
\* entries left out more similar than one returned, in non-increasing order
IsTopK(vs, embedding, topK, r) ==
    LET sim(id) == cosineSimilarity(embedding, EntryOf(vs, id).embedding)
        returned == {r[i].id : i \in 1..Len(r)}
    IN  /\ Len(r) = Min(topK, Len(vs))
        /\ \A i, j \in 1..Len(r) : r[i].id = r[j].id => i = j
        /\ \A i \in 1..Len(r) :
              /\ r[i].id \in VectorIds(vs)
              /\ r[i].similarity = sim(r[i].id)
              /\ r[i].folderPath = EntryOf(vs, r[i].id).folderPath
        /\ \A i, j \in 1..Len(r) : i < j => ~SimGreater(r[j].similarity, r[i].similarity)
        /\ \A id \in VectorIds(vs) \ returned :
              \A i \in 1..Len(r) : ~SimGreater(sim(id), r[i].similarity)

\* C14: query(q, k) returns min(k, index size) entries, the ones of highest cosine
\* similarity to q, in non-increasing order of similarity; all of them when
\* k >= index size.  (On every index the adds can build, for every query that
\* returns.)
C14_QueryReturnsTopK ==
    /\ \A in \in Returning(vectors) :
          IsTopK(vectors, in[1], in[2], query(vectors, in[1], in[2]))
    /\ ~queryResult.thrown =>
          Len(queryResult.results) <= queryResult.topK

\* a query that returned the two most similar of three entries, of distinct
\* similarities
C14_Witness ==
    /\ Len(vectors) = 3
    /\ ~queryResult.thrown
    /\ queryResult.topK = 2
    /\ queryResult.results = query(vectors, queryResult.embedding, 2)
    /\ SimGreater(queryResult.results[1].similarity, queryResult.results[2].similarity)

\* r breaks its ties, inside the results and at the cut, by the order `order` of ids
TiesBy(vs, embedding, r, order) ==
    LET sim(id) == cosineSimilarity(embedding, EntryOf(vs, id).embedding)
        returned == {r[i].id : i \in 1..Len(r)}
    IN  /\ \A i, j \in 1..Len(r) :
              (i < j /\ SimEqual(r[i].similarity, r[j].similarity)) =>
                  IndexOf(order, r[i].id) < IndexOf(order, r[j].id)
        /\ \A id \in VectorIds(vs) \ returned :
              \A i \in 1..Len(r) :
                  SimEqual(sim(id), r[i].similarity) =>
                      IndexOf(order, r[i].id) < IndexOf(order, id)

\* C15 (as claimed): entries of equal similarity are ordered, and admitted to the
\* top k, by the order in which their ids were first added.
C15_TiesByFirstAdd ==
    \A in \in Returning(vectors) :
        TiesBy(vectors, in[1], query(vectors, in[1], in[2]), firstAdded)

\* C15 (amended): entries of equal similarity are ordered, and admitted to the top
\* k, by the order in which their ids were most recently added (adding an id again
\* moves it behind the ids added before).
C15_TiesByLatestAdd ==
    \A in \in Returning(vectors) :
        TiesBy(vectors, in[1], query(vectors, in[1], in[2]), latestOrder)

\* three tied entries, the first added of them added again last, and a query that
\* returned two of them: the one added again is left out
C15_Witness ==
    /\ Len(vectors) = 3
    /\ firstAdded[1] = latestOrder[3]
    /\ ~queryResult.thrown
    /\ queryResult.topK = 2
    /\ queryResult.results = query(vectors, queryResult.embedding, 2)
    /\ Len(queryResult.results) = 2
    /\ SimEqual(queryResult.results[1].similarity, queryResult.results[2].similarity)
    /\ SimEqual(queryResult.results[1].similarity,
                cosineSimilarity(queryResult.embedding,
                                 EntryOf(vectors, firstAdded[1]).embedding))
    /\ \A i \in 1..2 : queryResult.results[i].id # firstAdded[1]

\* C16: all entries of the index have embeddings of one length, and no query call
\* fails on a length mismatch.
C16_OneDimensionality ==
    /\ \A i, j \in 1..Len(vectors) :
          Len(vectors[i].embedding) = Len(vectors[j].embedding)
    /\ ~queryResult.thrown

(***************************************************************************)
(* getSuggestion alone: one call, on the neighbours that findSimilarNotes  *)
(* returned and the answer of the suggestion provider.                     *)
(***************************************************************************)
MaxNeighbors == 4
MaxLines == 2

Neighbor(folder) ==
    [id |-> Path(FolderDir(folder), "n", Ext), folderPath |-> folder,
     similarity |-> [dot |-> 1, sq |-> 1]]

NeighborFolders == {"work", "ideas", "misc"}

NeighborLists ==
    UNION {[1..n -> {Neighbor(folder) : folder \in NeighborFolders}] : n \in 0..MaxNeighbors}

\* the lines a reply is made of: the labelled ones, with values in and out of the
\* range the prompt asks for, and other text
ReplyLines ==
    { Line("FOLDER", "work"), Line("FOLDER", ""),
      Line("CONFIDENCE", "85"), Line("CONFIDENCE", "30%"), Line("CONFIDENCE", "100"),
      Line("CONFIDENCE", "150"), Line("CONFIDENCE", "-5"), Line("CONFIDENCE", "high"),
      Line("REASON", "r"), Line("TEXT", "Sure!") }

ParseReplies ==
    {NoReply} \cup UNION {[1..n -> ReplyLines] : n \in 0..MaxLines}

InitSuggest ==
    /\ FreshStores
    /\ neighbors \in NeighborLists
    /\ lastReply \in ParseReplies
    /\ suggested = NoSuggestion

GetSuggestion ==
    /\ suggested' = getSuggestion(neighbors, lastReply)
    /\ UNCHANGED <<files, dirs, vectors, disk, notes, folderStats, history, nextId,
                   tasks, nextTid, processing, events, watching, exited, lastResult,
                   undoTrail, drops, lastReply, lastPrompts, batch, neighbors, firstAdded, lastAdded,
                   latestOrder, queryResult, report>>

NextSuggest == GetSuggestion

SpecSuggest == InitSuggest /\ [][NextSuggest]_vars

\* C17: the SortSuggestion parsed from any reply has a confidence within [0,1]
\* (0..100 hundredths).
C17_ConfidenceInRange ==
    /\ suggested.confidence # NaN
    /\ suggested.confidence >= 0
    /\ suggested.confidence <= 100

\* the folders of most occurrences among the neighbours
Plurality(ns) ==
    {f \in NeighborFolders :
        /\ \E i \in 1..Len(ns) : ns[i].folderPath = f
        /\ \A g \in NeighborFolders :
              Cardinality({i \in 1..Len(ns) : ns[i].folderPath = g})
                  <= Cardinality({i \in 1..Len(ns) : ns[i].folderPath = f})}

\* C18: when the provider call fails and there is at least one neighbour, the
\* suggestion is the folder occurring most often among the neighbours, the one met
\* first in ranking order among the folders that tie, with confidence exactly 0.5.
C18_FallbackIsPlurality ==
    [][(lastReply = NoReply /\ Len(neighbors) > 0) =>
          /\ suggested'.folder \in Plurality(neighbors)
          /\ \E i \in 1..Len(neighbors) :
                /\ neighbors[i].folderPath = suggested'.folder
                /\ \A j \in 1..(i - 1) : neighbors[j].folderPath \notin Plurality(neighbors)
          /\ suggested'.confidence = 50]_vars

\* a failed call whose neighbours tie two against two: the folder met first is taken
C18_Witness ==
    /\ lastReply = NoReply
    /\ Len(neighbors) = 4
    /\ Cardinality(Plurality(neighbors)) = 2
    /\ neighbors[2].folderPath # neighbors[1].folderPath
    /\ suggested.folder = neighbors[1].folderPath
    /\ suggested.confidence = 50

(***************************************************************************)
(* The move and undo commands on a workspace that has not been analysed    *)
(* (the sort command runs once a note is in memory): the first neighbour   *)
(* search finds nothing.                                                   *)
(***************************************************************************)
SpecFresh == InitFresh /\ [][Next]_vars

\* the step is sortNote `tid` resuming with the provider's answer
IsSuggested(tid) ==
    /\ tid \in DOMAIN tasks /\ tasks[tid].pc = "llm"
    /\ tid \in DOMAIN tasks' => tasks'[tid].pc # "llm"

\* the provider answered, and no line of the answer is a FOLDER line
LacksFolder(reply) ==
    /\ reply # NoReply
    /\ \A i \in 1..Len(reply) : reply[i].tag # "FOLDER"

\* sortNote `tid` returns "No suggestion": no throw, no move, no history entry
EndsInNoSuggestion(tid) ==
    /\ IsReturn(tid)
    /\ lastResult' = Result(tid, tasks[tid].path, FALSE, "No suggestion", NoPath, 0)
    /\ files' = files
    /\ history' = history

\* the number on the last CONFIDENCE line of the reply, 0 when it has none
StatedConfidence(reply) ==
    LET stated == SelectSeq(reply, LAMBDA l : l.tag = "CONFIDENCE")
    IN  IF stated = <<>> THEN 0 ELSE parseFloat(stated[Len(stated)].val)

\* C19 (as claimed): a reply without a FOLDER line parses to an empty folder with
\* confidence 0, and sortNote ends in NoSuggestion without a throw, a move or a
\* history entry.
C19_NoFolderIsEmptySuggestion ==
    [][\A tid \in DOMAIN tasks :
          (IsSuggested(tid) /\ LacksFolder(lastReply')) =>
              /\ parseLLMResponse(lastReply').folder = ""
              /\ parseLLMResponse(lastReply').confidence = 0
              /\ EndsInNoSuggestion(tid)]_vars

\* C19 (amended): a reply without a FOLDER line parses to an empty folder, with the
\* confidence of its CONFIDENCE line (0 when it has none), and sortNote ends in
\* NoSuggestion without a throw, a move or a history entry.
C19_NoFolderIsNoSuggestion ==
    [][\A tid \in DOMAIN tasks :
          (IsSuggested(tid) /\ LacksFolder(lastReply')) =>
              /\ parseLLMResponse(lastReply').folder = ""
              /\ parseLLMResponse(lastReply').confidence = StatedConfidence(lastReply')
              /\ EndsInNoSuggestion(tid)]_vars

\* a sortNote has returned "No suggestion" on a reply that has a CONFIDENCE line
\* and no FOLDER line
C19_Witness ==
    /\ LacksFolder(lastReply)
    /\ \E i \in 1..Len(lastReply) : lastReply[i].tag = "CONFIDENCE"
    /\ lastResult.error = "No suggestion"
    /\ ~lastResult.success

\* C20: when the provider call fails and the neighbour search returned nothing,
\* the fallback is an empty folder with confidence 0 and sortNote ends in
\* NoSuggestion, the file unmoved and no history entry written.
C20_NoNeighborsNoSuggestion ==
    [][\A tid \in DOMAIN tasks :
          (IsSuggested(tid) /\ lastReply' = NoReply /\ tasks[tid].similarNotes = <<>>) =>
              /\ getSuggestion(tasks[tid].similarNotes, lastReply').folder = ""
              /\ getSuggestion(tasks[tid].similarNotes, lastReply').confidence = 0
              /\ EndsInNoSuggestion(tid)]_vars

\* a sortNote on the empty index has returned "No suggestion" after a failed call
C20_Witness ==
    /\ vectors = <<>>
    /\ lastReply = NoReply
    /\ lastResult.error = "No suggestion"
    /\ lastResult.path \in DOMAIN files
    /\ history = <<>>

(***************************************************************************)
(* The sort, move and undo commands on an analysed workspace whose inbox   *)
(* holds three notes, one of them too short to sort.                       *)
(***************************************************************************)
InboxNote(name) == Path(InboxDir, name, Ext)

InitInbox ==
    /\ files = [p \in {FiledNote} \cup {InboxNote(n.name) : n \in Notes} |->
                   IF p = FiledNote THEN "meet"
                   ELSE (CHOOSE n \in Notes : InboxNote(n.name) = p).content]
    /\ dirs = {Workspace, InboxDir, FolderDir("work")}
    /\ vectors = <<VectorEntry(FiledNote, "meet", "work")>>
    /\ disk = Snapshot(vectors)
    /\ notes = (FiledNote :> NoteRecord("meet", "work"))
    /\ folderStats = ("work" :> 1)
    /\ history = <<>>
    /\ nextId = 1
    /\ tasks = <<>>
    /\ nextTid = 0
    /\ processing = {}
    /\ events = {}
    /\ watching = FALSE
    /\ exited = FALSE
    /\ lastResult = NoResult
    /\ undoTrail = <<>>
    /\ drops = 0
    /\ lastReply = <<>>
    /\ lastPrompts = NoPrompts
    /\ batch = NoBatch
    /\ neighbors = <<>>
    /\ suggested = NoSuggestion
    /\ firstAdded = <<FiledNote>>
    /\ lastAdded = (FiledNote :> VectorEntry(FiledNote, "meet", "work"))
    /\ latestOrder = <<FiledNote>>
    /\ queryResult = NoQuery
    /\ report = NoReport

NextNote ==
    \/ SortCmd
    \/ Embedded
    \/ Suggested
    \/ Embedded2
    \/ WriteOpen
    \/ WriteDone
    \/ undoLastSort

SpecNote == InitInbox /\ [][NextNote]_vars

\* sortNote `tid` returns "User cancelled": no move, no history entry
EndsCancelled(tid) ==
    /\ IsReturn(tid)
    /\ lastResult' = Result(tid, tasks[tid].path, FALSE, "User cancelled", NoPath, 0)
    /\ files' = files
    /\ dirs' = dirs
    /\ history' = history

\* C21: in interactive mode, with a suggestion below the threshold, the user is
\* asked, nothing is moved or recorded unless the answer to "Proceed anyway?" is
\* yes, and a prompt declined or cancelled ends the attempt with the file unmoved
\* and no history entry.
C21_LowConfidenceNeedsProceed ==
    [][\A tid \in DOMAIN tasks :
          LET suggestion == getSuggestion(tasks[tid].similarNotes, lastReply')
          IN  (/\ IsSuggested(tid)
               /\ ~tasks[tid].auto
               /\ suggestion.folder # ""
               /\ LessThan(suggestion.confidence, confidenceThreshold)) =>
                  /\ lastPrompts'.proceed \in {"yes", "no"}
                  /\ (files' # files \/ history' # history \/ IsMove(tid)) =>
                        lastPrompts'.proceed = "yes"
                  /\ (lastPrompts'.proceed = "no" \/ lastPrompts'.confirm = "no") =>
                        EndsCancelled(tid)]_vars

\* an interactive sortNote has moved a note on a suggestion below the threshold,
\* the user having answered yes to both prompts
C21_Witness ==
    /\ lastPrompts = [proceed |-> "yes", confirm |-> "yes"]
    /\ \E tid \in DOMAIN tasks :
          /\ Moved(tid)
          /\ ~tasks[tid].auto
          /\ LessThan(tasks[tid].suggestion.confidence, confidenceThreshold)
          /\ tasks[tid].destination \in DOMAIN files

\* the step is a step of sortNote `tid`
IsStepOf(tid) ==
    /\ tid \in DOMAIN tasks
    /\ tid \in DOMAIN tasks' => tasks'[tid] # tasks[tid]

\* C22: a dry-run sortNote changes no file and no directory and writes no history
\* entry (nor any store), whatever the suggestion and the mode; when it succeeds
\* it reports the destination join(workspace, folder, basename).
C22_DryRunChangesNothing ==
    [][\A tid \in DOMAIN tasks :
          (tasks[tid].dryRun /\ IsStepOf(tid)) =>
              /\ files' = files
              /\ dirs' = dirs
              /\ history' = history
              /\ nextId' = nextId
              /\ vectors' = vectors
              /\ disk' = disk
              /\ notes' = notes
              /\ folderStats' = folderStats
              /\ (IsReturn(tid) /\ lastResult'.success) =>
                    /\ lastResult'.confidence =
                          getSuggestion(tasks[tid].similarNotes, lastReply').confidence
                    /\ lastResult'.to =
                          dryRunDestination(tasks[tid].path,
                              getSuggestion(tasks[tid].similarNotes, lastReply').folder)]_vars

\* a sortNote has reported success with a destination while its note is still in
\* the inbox and nothing is recorded: a dry run
C22_Witness ==
    /\ lastResult.success
    /\ lastResult.to # NoPath
    /\ lastResult.path \in DOMAIN files
    /\ lastResult.to \notin DOMAIN files
    /\ history = <<>>
    /\ DOMAIN tasks = {}

(***************************************************************************)
(* undoLastSort: what a call leaves behind.                                *)
(***************************************************************************)
FilesystemUnchanged == files' = files /\ dirs' = dirs

StoresUnchanged ==
    /\ history' = history /\ nextId' = nextId
    /\ notes' = notes /\ folderStats' = folderStats
    /\ vectors' = vectors /\ disk' = disk

\* C25: undoLastSort called while the history is empty returns failure and has no
\* side effect: no file is created, moved or removed and no store is changed.
C25_UndoOnEmptyHistory ==
    [][(IsUndo /\ history = <<>>)
          => /\ ~lastResult'.success
             /\ FilesystemUnchanged
             /\ StoresUnchanged]_vars

C25_Witness ==
    /\ undoTrail # <<>>
    /\ history = <<>>
    /\ ~lastResult.success
    /\ lastResult.error = "No recent sorts to undo"

\* C26: when the destination file of the latest history entry no longer exists,
\* undoLastSort returns failure (file not found) and changes neither the filesystem
\* (no directory created, no rename) nor any store.
C26_UndoOfMissingFile ==
    [][(/\ IsUndo
        /\ history # <<>>
        /\ history[Len(history)].toPath \notin DOMAIN files)
          => /\ ~lastResult'.success
             /\ lastResult'.error = "File not found"
             /\ FilesystemUnchanged
             /\ StoresUnchanged]_vars

C26_Witness ==
    /\ undoTrail # <<>>
    /\ history # <<>>
    /\ history[Len(history)].toPath \notin DOMAIN files
    /\ lastResult.error = "File not found"

\* C27: undoLastSort, whether it succeeds or fails, leaves the history, the
\* NoteRecord set, the FolderStats and the VectorIndex unchanged: the history entry
\* is not popped and nothing of the sort is reversed in the stores.
C27_UndoLeavesStores == [][IsUndo => StoresUnchanged]_vars

C27_Witness ==
    /\ undoTrail # <<>>
    /\ lastResult.success
    /\ history # <<>>
    /\ lastResult.path = history[Len(history)].toPath
    /\ history[Len(history)].fromPath \in DOMAIN files
    /\ history[Len(history)].toPath \in DOMAIN notes

(***************************************************************************)
(* sortNote: a move that fails.                                            *)
(***************************************************************************)
\* C28: when the filesystem move fails, sortNote reports a failed outcome and the
\* sort history, the NoteRecord set and the VectorIndex are as they were before
\* the attempt: no step of the attempt up to and including the failed move writes
\* to them (nor to folder_stats or vectors.json), and the note stays where it was.
C28_FailedMoveLeavesStores ==
    [][\A tid \in DOMAIN tasks :
          /\ (IsStepOf(tid) /\ tasks[tid].pc \in {"embed", "llm"} /\ ~IsMove(tid))
                => StoresUnchanged
          /\ (IsReturn(tid) /\ lastResult'.error = "Failed to move file")
                => /\ ~lastResult'.success
                   /\ lastResult'.to = NoPath
                   /\ files' = files
                   /\ StoresUnchanged]_vars

\* a sortNote that was told to move (automatic, confident suggestion) has reported
\* the failed move; its note is still in the inbox and nothing is recorded
C28_Witness ==
    /\ lastResult.error = "Failed to move file"
    /\ ~lastResult.success
    /\ lastResult.path \in DOMAIN files
    /\ lastResult.path \notin DOMAIN notes
    /\ history = <<>>
    /\ DOMAIN tasks = {}

(***************************************************************************)
(* sort_history.                                                           *)
(***************************************************************************)
StrictlyIncreasingIds(h) == \A i, j \in 1..Len(h) : i < j => h[i].id < h[j].id

\* the step appends one entry, whose id is above every id in the log
IsAppend(h, g) ==
    /\ Len(g) = Len(h) + 1
    /\ SubSeq(g, 1, Len(h)) = h
    /\ \A i \in 1..Len(h) : h[i].id < g[Len(g)].id

\* C30: the history is an append-only log with strictly increasing ids (every
\* step of sortNote and undoLastSort leaves it as it is or appends one entry with
\* a higher id), and getLastSort returns the entry with the highest id, which is
\* the one appended last, or the none sentinel when the history is empty.
C30_HistoryIsAppendLog ==
    /\ [](/\ StrictlyIncreasingIds(history)
          /\ getLastSort(history) =
                IF history = <<>> THEN NoSort ELSE history[Len(history)]
          /\ \A i \in 1..Len(history) : history[i].id <= getLastSort(history).id)
    /\ [][history' = history \/ IsAppend(history, history')]_vars

\* two sorts are recorded and getLastSort returns the second
C30_Witness ==
    /\ Len(history) = 2
    /\ history[1].id < history[2].id
    /\ getLastSort(history) = history[2]
    /\ getLastSort(history) # NoSort

(***************************************************************************)
(* sortInbox: the batch.  batch.todo holds the listed notes not yet        *)
(* tallied, the first of them being the one whose sortNote is awaited.     *)
(* The loop has no try/catch: a sortNote that throws rejects sortInbox     *)
(* (state "aborted") and no counts are returned.                           *)
(***************************************************************************)
\* the order in which readdirSync lists the inbox
ListingOrder == <<InboxNote("memo"), InboxNote("note"), InboxNote("stub")>>

\* readdirSync(inbox) filtered by existsSync and isValidFile, in listing order
InboxListing(fs) ==
    LET eligible(notePath) == notePath \in DOMAIN fs /\ notePath.dir = InboxDir
    IN  SelectSeq(ListingOrder, eligible)

\* a loop that counts a cancellation as a failure
tallyCancelFails(b, result) ==
    IF result.success THEN [b EXCEPT !.sorted = @ + 1]
    ELSE IF result.error = "Content too short" THEN [b EXCEPT !.skipped = @ + 1]
    ELSE [b EXCEPT !.failed = @ + 1]

\* the if / else if / else after each sortNote of the loop
tally(b, result) ==
    IF result.success THEN [b EXCEPT !.sorted = @ + 1]
    ELSE IF result.error = "User cancelled" \/ result.error = "Content too short"
    THEN [b EXCEPT !.skipped = @ + 1]
    ELSE [b EXCEPT !.failed = @ + 1]

\* sortInbox up to the first await of its first sortNote
SortInbox ==
    \E auto \in BOOLEAN, dryRun \in BOOLEAN :
        LET listing == InboxListing(files)
            finished == [NoBatch EXCEPT !.state = "done", !.auto = auto, !.dryRun = dryRun]
        IN  /\ ~watching /\ ~exited
            /\ batch.state = "idle"
            /\ DOMAIN tasks = {}
            /\ undoTrail' = <<>>
            /\ lastReply' = <<>>
            /\ lastPrompts' = NoPrompts
            /\ IF InboxDir \notin dirs
               THEN /\ dirs' = dirs \cup {InboxDir}
                    /\ batch' = finished
                    /\ UNCHANGED <<tasks, nextTid, lastResult, processing>>
               ELSE IF listing = <<>>
               THEN /\ batch' = finished
                    /\ UNCHANGED <<dirs, tasks, nextTid, lastResult, processing>>
               ELSE /\ batch' = [finished EXCEPT !.state = "running", !.todo = listing,
                                                 !.listed = Len(listing)]
                    /\ nextTid' = nextTid + 1
                    /\ sortNoteStart(nextTid + 1, Head(listing), auto, dryRun)
                    /\ UNCHANGED dirs
            /\ UNCHANGED <<unitVars, files, vectors, disk, notes, folderStats, history, nextId,
                           events, watching, exited, drops>>

\* the awaited sortNote has settled: sortInbox counts its result and goes on to the
\* next note, or returns the counts; a sortNote that threw ends sortInbox there
SortInboxResume ==
    LET counted == tally(batch, lastResult)
        rest == Tail(batch.todo)
    IN  /\ ~exited
        /\ batch.state = "running"
        /\ DOMAIN tasks = {}
        /\ lastReply' = <<>>
        /\ lastPrompts' = NoPrompts
        /\ IF lastResult.error = "thrown"
           THEN /\ batch' = [batch EXCEPT !.state = "aborted"]
                /\ UNCHANGED <<tasks, nextTid, lastResult, processing>>
           ELSE IF rest = <<>>
           THEN /\ batch' = [counted EXCEPT !.state = "done", !.todo = <<>>]
                /\ UNCHANGED <<tasks, nextTid, lastResult, processing>>
           ELSE /\ batch' = [counted EXCEPT !.todo = rest]
                /\ nextTid' = nextTid + 1
                /\ sortNoteStart(nextTid + 1, Head(rest), batch.auto, batch.dryRun)
        /\ UNCHANGED <<unitVars, files, dirs, vectors, disk, notes, folderStats, history,
                       nextId, events, watching, exited, undoTrail, drops>>

\* the user removes a listed note that sortInbox has not come to yet (one at a time)
RemoveListed ==
    \E i \in 2..Len(batch.todo) :
        /\ batch.state = "running"
        /\ \A j \in 2..Len(batch.todo) : batch.todo[j] \in DOMAIN files
        /\ files' = Drop(files, batch.todo[i])
        /\ UNCHANGED <<unitVars, lastReply, lastPrompts, batch, dirs, vectors, disk, notes,
                       folderStats, history, nextId, tasks, nextTid, processing, events,
                       watching, exited, lastResult, undoTrail, drops>>

\* an analysed workspace whose inbox holds three notes, or has no inbox folder
InitBatch ==
    \E inbox \in BOOLEAN :
        /\ files = [p \in {FiledNote} \cup {InboxNote(n.name) : n \in {m \in Notes : inbox}} |->
                       IF p = FiledNote THEN "meet"
                       ELSE (CHOOSE n \in Notes : InboxNote(n.name) = p).content]
        /\ dirs = {Workspace, FolderDir("work")} \cup {d \in {InboxDir} : inbox}
        /\ vectors = <<VectorEntry(FiledNote, "meet", "work")>>
        /\ disk = Snapshot(vectors)
        /\ notes = (FiledNote :> NoteRecord("meet", "work"))
        /\ folderStats = ("work" :> 1)
        /\ history = <<>>
        /\ nextId = 1
        /\ tasks = <<>>
        /\ nextTid = 0
        /\ processing = {}
        /\ events = {}
        /\ watching = FALSE
        /\ exited = FALSE
        /\ lastResult = NoResult
        /\ undoTrail = <<>>
        /\ drops = 0
        /\ lastReply = <<>>
        /\ lastPrompts = NoPrompts
        /\ batch = NoBatch
        /\ neighbors = <<>>
        /\ suggested = NoSuggestion
        /\ firstAdded = <<FiledNote>>
        /\ lastAdded = (FiledNote :> VectorEntry(FiledNote, "meet", "work"))
        /\ latestOrder = <<FiledNote>>
        /\ queryResult = NoQuery
        /\ report = NoReport

NextInbox ==
    \/ SortInbox
    \/ SortInboxResume
    \/ RemoveListed
    \/ Embedded
    \/ Suggested
    \/ Embedded2
    \/ WriteOpen
    \/ WriteDone

SpecInbox == InitBatch /\ [][NextInbox]_vars

\* C23: sortInbox processes every note it listed and returns the counts: no failure
\* while classifying one note (unreadable file, embedding or neighbour-search
\* error, provider error, failed move) ends the batch before the remaining notes.
C23_BatchNeverAborts == batch.state # "aborted"

\* the note whose sortNote the step starts
StartedPath == Head(batch'.todo)

\* the step counts the result of a sortNote
IsTally == batch.state = "running" /\ batch' # batch /\ batch'.state # "aborted"

IsSkip(result) ==
    ~result.success /\ result.error \in {"Content too short", "User cancelled"}

Counted(b) == b.sorted + b.skipped + b.failed

\* C24: the counts of sortInbox partition the notes it listed: it lists the
\* eligible files of the inbox, each result it gets is counted once (a success as
\* sorted, TooShort and a user's cancellation as skipped, every other outcome as
\* failed), and the counts it returns add up to the number listed.
C24_CountsPartitionListed ==
    /\ [](batch.state \in {"running", "done"} =>
             Counted(batch) + Len(batch.todo) = batch.listed)
    /\ [](batch.state = "done" => Counted(batch) = batch.listed)
    /\ [][(batch.state = "idle" /\ batch' # batch)
             => batch'.listed = Cardinality({q \in inboxNotes : InboxDir \in dirs})]_vars
    /\ [][IsTally =>
             /\ lastResult.path = Head(batch.todo)
             /\ batch'.sorted = batch.sorted + (IF lastResult.success THEN 1 ELSE 0)
             /\ batch'.skipped = batch.skipped + (IF IsSkip(lastResult) THEN 1 ELSE 0)
             /\ batch'.failed = batch.failed +
                   (IF ~lastResult.success /\ ~IsSkip(lastResult) THEN 1 ELSE 0)]_vars

\* a batch of three notes has returned one sorted, one skipped and one failed
C24_Witness ==
    /\ batch.state = "done"
    /\ batch.listed = 3
    /\ batch.sorted = 1
    /\ batch.skipped = 1
    /\ batch.failed = 1

\* the call returns at once: no frame is left to embed, query, ask the provider,
\* move or record, and nothing is written
NoFurtherAction ==
    /\ tasks' = tasks
    /\ processing' = processing
    /\ FilesystemUnchanged
    /\ StoresUnchanged

\* C29: a sortNote whose file cannot be read ends with "Failed to read file", and
\* one whose content trims to fewer than 10 characters with "Content too short";
\* in both cases it does nothing else: no embedding, no neighbour query, no call
\* of the provider, no move and no write to a store.
C29_ReadErrorAndTooShortAreTerminal ==
    [][(nextTid' = nextTid + 1) =>
          /\ StartedPath \notin DOMAIN files =>
                /\ lastResult' = Result(0, StartedPath, FALSE, "Failed to read file", NoPath, 0)
                /\ NoFurtherAction
          /\ (/\ StartedPath \in DOMAIN files
              /\ ContentLength(files[StartedPath]) < MinContentLength) =>
                /\ lastResult' = Result(0, StartedPath, FALSE, "Content too short", NoPath, 0)
                /\ NoFurtherAction]_vars

\* the batch has met a note removed after the listing (read error, counted as
\* failed) and then a note too short, and waits with no sortNote in progress
C29_Witness ==
    /\ batch.state = "running"
    /\ DOMAIN tasks = {}
    /\ lastResult = Result(0, InboxNote("stub"), FALSE, "Content too short", NoPath, 0)
    /\ InboxNote("stub") \in DOMAIN files
    /\ InboxNote("note") \notin DOMAIN files
    /\ \A i \in 1..Len(history) : history[i].fromPath # InboxNote("note")
    /\ batch.failed >= 1

(***************************************************************************)
(* VectorStore.query and its cosineSimilarity on an index of at most one   *)
(* entry: embeddings of lengths 0, 2 and 3, zero vectors among them.       *)
(***************************************************************************)
Components == {-1, 0, 1, 2}

\* the number[] values an embedding function may return
Embeddings ==
    {<<>>} \cup {<<x, y>> : x \in Components, y \in Components}
           \cup {<<0, 0, 0>>, <<0, 0, 1>>}

\* an index that is empty or holds one entry
InitQuery ==
    \E vs \in {<<>>} \cup {<<IndexEntry("a", e, "work")>> : e \in Embeddings} :
        /\ vectors = vs
        /\ disk = Snapshot(vs)
        /\ firstAdded = [i \in 1..Len(vs) |-> vs[i].id]
        /\ latestOrder = [i \in 1..Len(vs) |-> vs[i].id]
        /\ lastAdded = [id \in {vs[i].id : i \in 1..Len(vs)} |-> vs[1]]
        /\ files = <<>>
        /\ dirs = {Workspace, InboxDir}
        /\ notes = <<>>
        /\ folderStats = <<>>
        /\ history = <<>>
        /\ nextId = 1
        /\ tasks = <<>>
        /\ nextTid = 0
        /\ processing = {}
        /\ events = {}
        /\ watching = FALSE
        /\ exited = FALSE
        /\ lastResult = NoResult
        /\ undoTrail = <<>>
        /\ drops = 0
        /\ lastReply = <<>>
        /\ lastPrompts = NoPrompts
        /\ batch = NoBatch
        /\ neighbors = <<>>
        /\ suggested = NoSuggestion
        /\ queryResult = NoQuery
        /\ report = NoReport

\* a call of query with any embedding and any topK
QueryAny ==
    \E embedding \in Embeddings, topK \in 0..MaxTopK :
        /\ queryResult' =
               IF queryThrows(vectors, embedding)
               THEN QueryResult(embedding, topK, TRUE, <<>>)
               ELSE QueryResult(embedding, topK, FALSE, query(vectors, embedding, topK))
        /\ UNCHANGED <<files, dirs, vectors, disk, notes, folderStats, history, nextId,
                       tasks, nextTid, processing, events, watching, exited, lastResult,
                       undoTrail, drops, lastReply, lastPrompts, batch, neighbors,
                       suggested, firstAdded, lastAdded, latestOrder, report>>

SpecQuery == InitQuery /\ [][QueryAny]_vars

\* C33: query on an empty index returns the empty sequence and raises no error,
\* whatever the query embedding (of any length) and whatever topK.
C33_EmptyIndexEmptyResult ==
    (vectors = <<>> /\ queryResult # NoQuery) =>
        /\ ~queryResult.thrown
        /\ queryResult.results = <<>>

\* a query of length 3 for topK > 0 has returned from the empty index
C33_Witness ==
    /\ vectors = <<>>
    /\ queryResult.embedding = <<0, 0, 1>>
    /\ queryResult.topK > 0
    /\ ~queryResult.thrown
    /\ queryResult.results = <<>>

\* the similarity is the number 0
IsZero(s) == s.dot = 0 /\ s.sq # 0

\* C34: for two vectors of one length cosineSimilarity raises no error, is 0 (and
\* not 0/0) whenever one of the two has norm zero, and has the same value with its
\* arguments exchanged.
C34_CosineZeroNormAndSymmetric ==
    (Len(vectors) = 1 /\ queryResult # NoQuery
        /\ Len(queryResult.embedding) = Len(vectors[1].embedding)) =>
        LET a == queryResult.embedding
            b == vectors[1].embedding
        IN  /\ ~queryResult.thrown
            /\ queryResult.topK > 0 =>
                  /\ Len(queryResult.results) = 1
                  /\ (Dot(a, a) = 0 \/ Dot(b, b) = 0) =>
                        IsZero(queryResult.results[1].similarity)
                  /\ queryResult.results[1].similarity = cosineSimilarity(b, a)
                  /\ queryResult.results[1].similarity.sq # 0

\* a zero query vector has been compared with a non-zero entry: similarity 0
C34_Witness ==
    /\ Len(vectors) = 1
    /\ vectors[1].embedding = <<1, 2>>
    /\ queryResult.embedding = <<0, 0>>
    /\ Len(queryResult.results) = 1
    /\ IsZero(queryResult.results[1].similarity)

(***************************************************************************)
(* MemoryManager.getStats on a sort_history table of up to MaxRows rows.   *)
(* Time is counted in days; an average is the pair (sum, count) of the     *)
(* confidences it is taken over, NULL being the pair with count 0.         *)
(***************************************************************************)
MaxRows == 2

\* the trailing window of getStats: 30 * 24 * 60 * 60 * 1000 ms
WindowDays == 30

\* the days on which getStats is called, and those on which sorts were recorded
Clock == {40, 41}

Timestamps == {9, 10, 11, 40}

Confidences == {0, 50, 85}

\* a row of sort_history as getStats reads it
HistoryRow(id, confidence, timestamp) ==
    [id |-> id, confidence |-> confidence, timestamp |-> timestamp]

RECURSIVE SumConfidence(_)
SumConfidence(rows) ==
    IF rows = <<>> THEN 0 ELSE Head(rows).confidence + SumConfidence(Tail(rows))

\* SELECT AVG(confidence) FROM sort_history WHERE timestamp > since
AvgConfidence(h, since) ==
    LET inWindow(row) == row.timestamp > since
        rows == SelectSeq(h, inWindow)
    IN  [sum |-> SumConfidence(rows), count |-> Len(rows)]

\* a getStats that hands the average on as it is
orZeroKept(avg) == avg

\* avgConfidenceResult.avg || 0
orZero(avg) == IF avg.count = 0 \/ avg.sum = 0 THEN [sum |-> 0, count |-> 1] ELSE avg

getStats(ns, h, now) ==
    [kind |-> "stats",
     now |-> now,
     totalNotes |-> Cardinality(DOMAIN ns),
     totalFolders |-> Cardinality({ns[id].folderPath : id \in DOMAIN ns}),
     totalSorts |-> Len(h),
     avgConfidence30d |-> orZero(AvgConfidence(h, now - WindowDays))]

RECURSIVE RowsOfLength(_)
\* the tables of n rows, ids 1..n, timestamps in the order of the ids
RowsOfLength(n) ==
    IF n = 0 THEN {<<>>}
    ELSE {Append(h, HistoryRow(n, c, t)) :
             h \in RowsOfLength(n - 1), c \in Confidences,
             t \in Timestamps}

InitStats ==
    /\ history \in {h \in UNION {RowsOfLength(n) : n \in 0..MaxRows} :
                       \A i \in 1..Len(h), j \in 1..Len(h) :
                           i < j => h[i].timestamp <= h[j].timestamp}
    /\ nextId = Len(history) + 1
    /\ files = (FiledNote :> "meet")
    /\ dirs = {Workspace, InboxDir, FolderDir("work")}
    /\ vectors = <<VectorEntry(FiledNote, "meet", "work")>>
    /\ disk = Snapshot(vectors)
    /\ notes = (FiledNote :> NoteRecord("meet", "work"))
    /\ folderStats = ("work" :> 1)
    /\ tasks = <<>>
    /\ nextTid = 0
    /\ processing = {}
    /\ events = {}
    /\ watching = FALSE
    /\ exited = FALSE
    /\ lastResult = NoResult
    /\ undoTrail = <<>>
    /\ drops = 0
    /\ lastReply = <<>>
    /\ lastPrompts = NoPrompts
    /\ batch = NoBatch
    /\ neighbors = <<>>
    /\ suggested = NoSuggestion
    /\ firstAdded = <<FiledNote>>
    /\ lastAdded = (FiledNote :> VectorEntry(FiledNote, "meet", "work"))
    /\ latestOrder = <<FiledNote>>
    /\ queryResult = NoQuery
    /\ report = NoReport

\* "sortr stats": a call of getStats
GetStats ==
    \E now \in Clock :
        /\ report' = getStats(notes, history, now)
        /\ UNCHANGED <<files, dirs, vectors, disk, notes, folderStats, history, nextId,
                       tasks, nextTid, processing, events, watching, exited, lastResult,
                       undoTrail, drops, lastReply, lastPrompts, batch, neighbors,
                       suggested, firstAdded, lastAdded, latestOrder, queryResult>>

SpecStats == InitStats /\ [][GetStats]_vars

\* the rows of the history recorded less than WindowDays before `now`
InWindow(now) ==
    {i \in 1..Len(history) : now - history[i].timestamp < WindowDays}

RECURSIVE SumOver(_)
SumOver(is) ==
    IF is = {} THEN 0
    ELSE LET i == CHOOSE i \in is : TRUE
         IN  history[i].confidence + SumOver(is \ {i})

\* C31: getStats returns a number as mean confidence, never a missing value: 0
\* when no history entry lies within the trailing window (so also when the history
\* is empty), and otherwise the mean of the confidences of exactly the entries
\* inside the window.
C31_MeanConfidenceOverWindow ==
    report # NoReport =>
        LET avg == report.avgConfidence30d
            in == InWindow(report.now)
        IN  /\ avg.count > 0
            /\ in = {} => avg.sum = 0
            /\ in # {} => avg.sum * Cardinality(in) = SumOver(in) * avg.count

\* getStats on a history with one entry inside the window and one on its edge
\* (exactly 30 days old, so outside): the mean is that of the one inside
C31_Witness ==
    /\ report # NoReport
    /\ report.now = 40
    /\ Len(history) = 2
    /\ history[1].timestamp = 10
    /\ history[2].timestamp = 40
    /\ history[1].confidence = 50
    /\ history[2].confidence = 85
    /\ report.avgConfidence30d = [sum |-> 85, count |-> 1]

(***************************************************************************)
(* The watcher with a note written again under its name (the file is       *)
(* removed and created anew, so chokidar delivers a second 'add' event for *)
(* the path), and with what may follow a sortNote that threw: the handler  *)
(* is an async callback nobody awaits, its rejection is unhandled, and the *)
(* runtime may end the process on it.                                      *)
(***************************************************************************)
ReplaceNote ==
    \E p \in inboxNotes :
        /\ watching /\ ~exited
        /\ drops < MaxDrops
        /\ drops' = drops + 1
        /\ events' = events \cup {p}
        /\ UNCHANGED <<unitVars, lastReply, lastPrompts, batch, files, dirs, vectors, disk,
                       notes, folderStats, history, nextId, tasks, nextTid, processing,
                       watching, exited, lastResult, undoTrail>>

UnhandledRejection ==
    /\ watching /\ ~exited
    /\ lastResult.error = "thrown"
    /\ watching' = FALSE
    /\ exited' = TRUE
    /\ UNCHANGED <<unitVars, lastReply, lastPrompts, batch, files, dirs, vectors, disk, notes,
                   folderStats, history, nextId, tasks, nextTid, processing, events,
                   lastResult, undoTrail, drops>>

NextRewatch ==
    \/ DropNote
    \/ ReplaceNote
    \/ AddEvent
    \/ Embedded
    \/ Suggested
    \/ Embedded2
    \/ WriteOpen
    \/ WriteDone
    \/ UnhandledRejection
    \/ Sigint

SpecRewatch == InitWatch /\ [][NextRewatch]_vars

\* the paths whose classification is in progress
TaskPaths == {tasks[tid].path : tid \in DOMAIN tasks}

\* the step is the 'add' handler taking the event for filePath
IsAddEvent(filePath) == filePath \in events /\ events' = events \ {filePath}

\* C32: in watch mode a path leaves the in-flight set when its classification
\* completes, be it with success, with a failed outcome or with a thrown error:
\* the in-flight set is the set of paths being classified (so it is empty once
\* every started classification has finished), and an event for a path that is
\* not in flight, also one classified before, starts a classification.
C32_InFlightUntilCompletion ==
    /\ [](processing = TaskPaths)
    /\ [][\A tid \in DOMAIN tasks :
             IsReturn(tid) => tasks[tid].path \notin processing']_vars
    /\ [][\A filePath \in events :
             (IsAddEvent(filePath) /\ filePath \notin processing)
                => /\ nextTid' = nextTid + 1
                   /\ (existsSync(files, filePath) /\ ~tooShort(files[filePath]))
                         => /\ filePath \in processing'
                            /\ filePath \in TaskPaths']_vars

\* the classification of a path has thrown, and the path, written again, is being
\* classified a second time
C32_Witness ==
    /\ watching
    /\ lastResult.error = "thrown"
    /\ processing = {lastResult.path}
    /\ \E tid \in DOMAIN tasks : tasks[tid].path = lastResult.path
    /\ nextTid = 2

(***************************************************************************)
(* WorkspaceAnalyzer.discoverNotes.  Here a path is the string the code    *)
(* handles, as the sequence of its pieces: "/" and parts of names, so that *)
(* "/ws/inbox-old" is <<"/", "ws", "/", "inbox", "-old">> and contains     *)
(* "/ws/inbox".  files and dirs hold such paths.                           *)
(***************************************************************************)
\* path.join(a, b)
join(a, b) == a \o <<"/">> \o b

\* config.getWorkspacePath()
WorkspacePath == <<"/", "ws">>

\* config.getInboxPath(): join(workspace, "inbox")
InboxPath == join(WorkspacePath, <<"inbox">>)

\* config.fileExtensions and config.excludeFolders
fileExtensions == {<<".md">>, <<".txt">>}

excludeFolders == {<<".git">>, <<"archive">>}

\* String.prototype.includes
includes(s, t) == \E i \in 0..(Len(s) - Len(t)) : SubSeq(s, i + 1, i + Len(t)) = t

\* String.prototype.endsWith
endsWith(s, t) == Len(s) >= Len(t) /\ SubSeq(s, Len(s) - Len(t) + 1, Len(s)) = t

\* String.prototype.startsWith
startsWith(s, t) == Len(s) >= Len(t) /\ SubSeq(s, 1, Len(t)) = t

RECURSIVE split(_)
\* String.prototype.split("/")
split(s) ==
    IF \A i \in 1..Len(s) : s[i] # "/" THEN <<s>>
    ELSE LET i == CHOOSE i \in 1..Len(s) :
                      s[i] = "/" /\ \A j \in 1..(i - 1) : s[j] # "/"
         IN  <<SubSeq(s, 1, i - 1)>> \o split(SubSeq(s, i + 1, Len(s)))

\* isExcludedFolder: a part of the path is one of the excluded names
isExcludedFolder(folderPath) ==
    LET parts == split(folderPath)
    IN  \E excluded \in excludeFolders : \E i \in 1..Len(parts) : parts[i] = excluded

\* isValidFile: the path ends with one of the extensions
isValidFileName(filePath) == \E ext \in fileExtensions : endsWith(filePath, ext)

\* path.relative(from, to) for `to` equal to or below `from`
relative(from, to) == IF to = from THEN <<>> ELSE SubSeq(to, Len(from) + 2, Len(to))

\* readdirSync(currentPath): the names of the entries of the directory
readdirSync(fs, ds, currentPath) ==
    {relative(currentPath, p) :
        p \in {q \in ds \cup DOMAIN fs :
                  /\ startsWith(q, currentPath \o <<"/">>)
                  /\ Len(split(relative(currentPath, q))) = 1}}

\* the test of discoverNotes for a directory it does not enter
skipsFolder(fullPath, inboxPath) ==
    \/ isExcludedFolder(fullPath)
    \/ fullPath = inboxPath
    \/ includes(fullPath, inboxPath)

RECURSIVE traverse(_, _, _, _)
\* traverse(currentPath): the notes found in the directory and below it
traverse(fs, ds, currentPath, inboxPath) ==
    UNION {LET fullPath == join(currentPath, entry)
           IN  IF fullPath \in ds
               THEN IF skipsFolder(fullPath, inboxPath)
                    THEN {}
                    ELSE traverse(fs, ds, fullPath, inboxPath)
               ELSE IF isValidFileName(fullPath)
               THEN {[filePath |-> fullPath,
                      folderPath |-> relative(WorkspacePath, currentPath)]}
               ELSE {} : entry \in readdirSync(fs, ds, currentPath)}

discoverNotes(fs, ds, dirPath, inboxPath) == traverse(fs, ds, dirPath, inboxPath)

\* the files a workspace may hold
WorkspaceFiles ==
    { join(WorkspacePath, <<"top", ".md">>),
      join(join(WorkspacePath, <<"work">>), <<"a", ".md">>),
      join(join(join(WorkspacePath, <<"work">>), <<"sub">>), <<"b", ".txt">>),
      join(join(WorkspacePath, <<"work">>), <<"pic", ".png">>),
      join(InboxPath, <<"new", ".md">>),
      join(join(InboxPath, <<"deep">>), <<"c", ".md">>),
      join(join(WorkspacePath, <<"inbox", "-old">>), <<"d", ".md">>),
      join(join(WorkspacePath, <<"archive">>), <<"e", ".md">>),
      join(join(join(WorkspacePath, <<"work">>), <<"archive">>), <<"f", ".md">>) }

\* the directories above a path, from the workspace down
Ancestors(p) ==
    {SubSeq(p, 1, i - 1) : i \in {j \in 3..Len(p) : p[j] = "/"}}

InitTree ==
    \E chosen \in SUBSET WorkspaceFiles :
        /\ files = [p \in chosen |-> "meet"]
        /\ dirs = {WorkspacePath, InboxPath} \cup UNION {Ancestors(p) : p \in chosen}
        /\ vectors = <<>>
        /\ disk = Snapshot(vectors)
        /\ notes = <<>>
        /\ folderStats = <<>>
        /\ history = <<>>
        /\ nextId = 1
        /\ tasks = <<>>
        /\ nextTid = 0
        /\ processing = {}
        /\ events = {}
        /\ watching = FALSE
        /\ exited = FALSE
        /\ lastResult = NoResult
        /\ undoTrail = <<>>
        /\ drops = 0
        /\ lastReply = <<>>
        /\ lastPrompts = NoPrompts
        /\ batch = NoBatch
        /\ neighbors = <<>>
        /\ suggested = NoSuggestion
        /\ firstAdded = <<>>
        /\ lastAdded = <<>>
        /\ latestOrder = <<>>
        /\ queryResult = NoQuery
        /\ report = NoReport

Discover ==
    /\ report' = [kind |-> "discovery",
                  found |-> discoverNotes(files, dirs, WorkspacePath, InboxPath)]
    /\ UNCHANGED <<files, dirs, vectors, disk, notes, folderStats, history, nextId,
                   tasks, nextTid, processing, events, watching, exited, lastResult,
                   undoTrail, drops, lastReply, lastPrompts, batch, neighbors,
                   suggested, firstAdded, lastAdded, latestOrder, queryResult>>

SpecDiscover == InitTree /\ [][Discover]_vars

\* the directory that holds the file
Dirname(p) ==
    LET i == CHOOSE i \in 1..Len(p) : p[i] = "/" /\ \A j \in (i + 1)..Len(p) : p[j] # "/"
    IN  SubSeq(p, 1, i - 1)

\* a folder between the workspace root and the file has an excluded name
UnderExcludedFolder(p) ==
    LET below == split(relative(WorkspacePath, Dirname(p)))
    IN  \E i \in 1..Len(below) : below[i] \in excludeFolders

InInboxSubtree(p) == startsWith(p, InboxPath \o <<"/">>)

\* the eligible files below the root, outside excluded folders and the inbox
Discoverable ==
    {p \in DOMAIN files :
        /\ startsWith(p, WorkspacePath \o <<"/">>)
        /\ isValidFileName(p)
        /\ ~UnderExcludedFolder(p)
        /\ ~InInboxSubtree(p)}

\* C35: discovery returns exactly the files with an eligible extension below the
\* workspace root that are neither under a folder with an excluded name nor in
\* the inbox subtree (every other folder is entered), each with its directory
\* relative to the workspace root as folder path.
C35_DiscoveryIsExact ==
    report # NoReport =>
        report.found = {[filePath |-> p,
                         folderPath |-> relative(WorkspacePath, Dirname(p))] :
                            p \in Discoverable}

(***************************************************************************)
(* WorkspaceAnalyzer.analyze ("sortr init"), run up to MaxRuns times on a  *)
(* workspace that does not change.  The command runs alone, so a run is    *)
(* one step; `failing` are the notes whose embedding is refused.           *)
(***************************************************************************)
MaxRuns == 2

\* the files of the workspace and their content
AnalyzedFiles ==
    (join(WorkspacePath, <<"top", ".md">>) :> "meet")
    @@ (join(join(WorkspacePath, <<"work">>), <<"a", ".md">>) :> "idea")
    @@ (join(join(WorkspacePath, <<"work">>), <<"z", ".md">>) :> "meet")
    @@ (join(join(join(WorkspacePath, <<"work">>), <<"sub">>), <<"b", ".txt">>) :> "tiny")
    @@ (join(join(WorkspacePath, <<"archive">>), <<"e", ".md">>) :> "meet")
    @@ (join(InboxPath, <<"new", ".md">>) :> "meet")

RECURSIVE ListingOf(_)
\* the discovered notes in the order of the traversal
ListingOf(found) ==
    IF found = {} THEN <<>>
    ELSE LET first == CHOOSE n \in found : TRUE
         IN  <<first>> \o ListingOf(found \ {first})

\* memory.addNote(filePath, content, folderPath) on the stores st
addNoteTo(st, note, content) ==
    LET entry == VectorEntry(note.filePath, content, note.folderPath)
        ns == upsertNote(st.ns, note.filePath, content, note.folderPath)
    IN  [st EXCEPT !.vs = VectorAdd(st.vs, entry),
                   !.ns = ns,
                   !.fstats = updateFolderStats(st.fstats, ns, note.folderPath),
                   !.added = Append(st.added, entry),
                   !.processed = @ + 1]

\* a loop that does not count the notes it could not add
skipUncounted(st) == st

\* skipped++
skip(st) == [st EXCEPT !.skipped = @ + 1]

RECURSIVE processNotes(_, _, _, _)
\* the loop of processNotes: read, skip when too short, addNote, skip on an error
processNotes(st, todo, fs, failing) ==
    IF todo = <<>> THEN st
    ELSE LET note == Head(todo)
             next == IF ~existsSync(fs, note.filePath) THEN skip(st)
                     ELSE IF tooShort(fs[note.filePath]) THEN skip(st)
                     ELSE IF note.filePath \in failing THEN skip(st)
                     ELSE addNoteTo(st, note, fs[note.filePath])
         IN  processNotes(next, Tail(todo), fs, failing)

\* getFolderStructure: SELECT folder_path, COUNT( * ) FROM notes GROUP BY folder_path
getFolderStructure(ns) ==
    [folder \in {ns[id].folderPath : id \in DOMAIN ns} |-> CountInFolder(ns, folder)]

RECURSIVE recordAdds(_, _)
\* the ids in the order of their latest add, after the adds of `added`
recordAdds(order, added) ==
    IF added = <<>> THEN order
    ELSE recordAdds(Append(SelectSeq(order, LAMBDA id : id # Head(added).id),
                           Head(added).id),
                    Tail(added))

RECURSIVE recordFirstAdds(_, _)
recordFirstAdds(order, added) ==
    IF added = <<>> THEN order
    ELSE recordFirstAdds(IF \E i \in 1..Len(order) : order[i] = Head(added).id
                         THEN order
                         ELSE Append(order, Head(added).id),
                         Tail(added))

Runs(r) == IF r = NoReport THEN 0 ELSE r.run

InitAnalyze ==
    \E chosen \in SUBSET DOMAIN AnalyzedFiles :
        /\ files = [p \in chosen |-> AnalyzedFiles[p]]
        /\ dirs = {WorkspacePath, InboxPath} \cup UNION {Ancestors(p) : p \in chosen}
        /\ vectors = <<>>
        /\ disk = Snapshot(vectors)
        /\ notes = <<>>
        /\ folderStats = <<>>
        /\ history = <<>>
        /\ nextId = 1
        /\ tasks = <<>>
        /\ nextTid = 0
        /\ processing = {}
        /\ events = {}
        /\ watching = FALSE
        /\ exited = FALSE
        /\ lastResult = NoResult
        /\ undoTrail = <<>>
        /\ drops = 0
        /\ lastReply = <<>>
        /\ lastPrompts = NoPrompts
        /\ batch = NoBatch
        /\ neighbors = <<>>
        /\ suggested = NoSuggestion
        /\ firstAdded = <<>>
        /\ lastAdded = <<>>
        /\ latestOrder = <<>>
        /\ queryResult = NoQuery
        /\ report = NoReport

Analyze ==
    \E failing \in SUBSET DOMAIN files :
        LET found == discoverNotes(files, dirs, WorkspacePath, InboxPath)
            start == [vs |-> vectors, ns |-> notes, fstats |-> folderStats,
                      added |-> <<>>, processed |-> 0, skipped |-> 0]
            result == processNotes(start, ListingOf(found), files, failing)
        IN  /\ Runs(report) < MaxRuns
            /\ failing \subseteq {n.filePath : n \in found}
            /\ vectors' = result.vs
            /\ disk' = IF result.added = <<>> THEN disk ELSE Snapshot(result.vs)
            /\ notes' = result.ns
            /\ folderStats' = result.fstats
            /\ firstAdded' = recordFirstAdds(firstAdded, result.added)
            /\ latestOrder' = recordAdds(latestOrder, result.added)
            /\ lastAdded' = [id \in DOMAIN lastAdded \cup
                                    {result.added[i].id : i \in 1..Len(result.added)} |->
                                EntryOf(result.vs, id)]
            /\ report' = [kind |-> "analysis",
                          run |-> Runs(report) + 1,
                          discovered |-> Cardinality(found),
                          totalNotes |-> result.processed,
                          skipped |-> result.skipped,
                          folders |-> getFolderStructure(result.ns),
                          failing |-> failing,
                          before |-> [noteIds |-> DOMAIN notes,
                                      vectorIds |-> {vectors[i].id : i \in 1..Len(vectors)},
                                      entries |-> Len(vectors),
                                      folders |-> getFolderStructure(notes),
                                      folderStats |-> folderStats,
                                      failing |-> IF report = NoReport THEN {}
                                                  ELSE report.failing]]
            /\ UNCHANGED <<files, dirs, history, nextId, tasks, nextTid, processing, events,
                           watching, exited, lastResult, undoTrail, drops, lastReply,
                           lastPrompts, batch, neighbors, suggested, queryResult>>

SpecAnalyze == InitAnalyze /\ [][Analyze]_vars

\* C40: analysis is idempotent on an unchanged workspace: a second run in which
\* the embedding behaves as in the first leaves the NoteRecord ids, the VectorEntry
\* ids and the per-folder counts as the first run left them; after every run the
\* index holds one entry per note, and processed + skipped is the number of
\* discovered files.
C40_AnalyzeIsIdempotent ==
    report # NoReport =>
        /\ report.totalNotes + report.skipped = report.discovered
        /\ VectorIds(vectors) = DOMAIN notes
        /\ Len(vectors) = Cardinality(DOMAIN notes)
        /\ report.folders = getFolderStructure(notes)
        /\ (report.run >= 2 /\ report.failing = report.before.failing) =>
              /\ DOMAIN notes = report.before.noteIds
              /\ VectorIds(vectors) = report.before.vectorIds
              /\ Len(vectors) = report.before.entries
              /\ report.folders = report.before.folders
              /\ folderStats = report.before.folderStats

\* a second run has processed three notes again (two of one folder) and skipped a
\* short one; the stores hold the three
C40_Witness ==
    /\ report # NoReport
    /\ report.run = 2
    /\ report.failing = {}
    /\ report.before.failing = {}
    /\ report.totalNotes = 3
    /\ report.skipped = 1
    /\ report.before.entries = 3
    /\ Len(vectors) = 3
    /\ \E folder \in DOMAIN report.folders : report.folders[folder] = 2

\* C39: the destination a dry-run sortNote reports is the path a real sortNote
\* would move the note to, for the same note, suggestion and filesystem, whatever
\* the destination folder holds.
C39_DryRunReportsRealDestination ==
    [][\A tid \in DOMAIN tasks :
          (tasks[tid].dryRun /\ IsReturn(tid) /\ lastResult'.success) =>
              lastResult'.to =
                  moveDestination(files, tasks[tid].path,
                      getSuggestion(tasks[tid].similarNotes, lastReply').folder)]_vars

MoveCmd ==
    \E notePath \in DOMAIN files, auto \in BOOLEAN :
        /\ ~watching /\ ~exited
        /\ DOMAIN tasks = {}
        /\ nextTid < MaxSorts
        /\ nextTid' = nextTid + 1
        /\ sortNoteStart(nextTid + 1, notePath, auto, FALSE)
        /\ undoTrail' = <<>>
        /\ lastReply' = <<>>
        /\ lastPrompts' = NoPrompts
        /\ UNCHANGED <<unitVars, batch, files, dirs, vectors, disk, notes, folderStats,
                       history, nextId, events, watching, exited, drops>>

NextMove ==
    \/ MoveCmd
    \/ Embedded
    \/ Suggested
    \/ Embedded2
    \/ WriteOpen
    \/ WriteDone

SpecMove == Init /\ [][NextMove]_vars

\* C36: once sortNote has moved a note, neither the VectorIndex nor the
\* NoteRecord set holds an entry whose id is the source path the note has left,
\* also when that path was indexed before the move.
C36_NoEntryForVacatedPath ==
    [][\A tid \in DOMAIN tasks :
          (IsReturn(tid) /\ Moved(tid)) =>
              /\ tasks[tid].path \notin DOMAIN notes'
              /\ tasks[tid].path \notin VectorIds(vectors')]_vars

(***************************************************************************)
(* "sortr reset" and the next start of the program: MemoryManager.clear,   *)
(* then a new process whose MemoryManager.initialize opens the database    *)
(* and loads vectors.json.                                                 *)
(***************************************************************************)
\* MemoryManager.initialize of a new process: the tables are the ones of the
\* database file, the index is what VectorStore.load reads from vectors.json
Restart ==
    LET loaded == load(disk)
    IN  /\ vectors' = loaded
        /\ firstAdded' = [i \in 1..Len(loaded) |-> loaded[i].id]
        /\ lastAdded' = [id \in {loaded[i].id : i \in 1..Len(loaded)} |->
                            CHOOSE e \in {loaded[i] : i \in 1..Len(loaded)} : e.id = id]
        /\ latestOrder' = [i \in 1..Len(loaded) |-> loaded[i].id]
        /\ UNCHANGED <<files, dirs, disk, notes, folderStats, history, nextId, tasks,
                       nextTid, processing, events, watching, exited, lastResult,
                       undoTrail, drops, lastReply, lastPrompts, batch, neighbors,
                       suggested, queryResult, report>>

NextReset ==
    \/ AddNote
    \/ Clear
    \/ Restart

SpecReset == Init /\ [][NextReset]_vars

\* the memory as clear() leaves it
Cleared ==
    /\ notes = <<>>
    /\ history = <<>>
    /\ folderStats = <<>>
    /\ vectors = <<>>

\* C38: clear() resets the persisted vector snapshot too: when the program is
\* started again after a clear(), the index it loads is empty.
C38_ClearedIndexStaysEmpty ==
    [][(Cleared /\ vectors' = load(disk) /\ notes' = notes) => vectors' = <<>>]_vars

====
